---- MODULE Spec2Model ----
(***************************************************************************)
(* Door_System_2025: the monthly sharded metrics store                     *)
(* (lib/metrics_storage.py), its log-line parser and its range queries.    *)
(*                                                                         *)
(* Text is modelled as a sequence of tokens.  The tokens " " and "-" are   *)
(* the characters themselves, "B" stands for the word "Badge:", "S" for    *)
(* the word "Status:", and "a", "b" are ordinary text characters.  The two *)
(* markers keep their real shape (space, dash, space, word, space), so     *)
(* they overlap each other exactly where the real strings do.              *)
(*                                                                         *)
(* A timestamp is the tuple <<year, month, day, hour, minute, second>> of  *)
(* the numbers written by the fixed-width digit groups of                  *)
(* "YYYY-MM-DD HH:MM:SS"; comparing two such texts character by character  *)
(* is comparing the tuples field by field (TextLeq).                       *)
(*                                                                         *)
(* Further parts: the steps of ensure_month_db run by several callers at   *)
(* once (variable ens), the door-open duration pairing of                  *)
(* lib/server/routes_metrics.py (variable dur), and the other functions of *)
(* that file run on their own (variable call).                             *)
(***************************************************************************)
EXTENDS Integers, Sequences, FiniteSets, Bags, TLC

VARIABLES
    shards,     \* db path -> [rows, seq]: the month db files that exist
    dirs,       \* the year directories that exist under the base path
    now,        \* <<year, month>> of datetime.now()
    runs,       \* number of ingestion runs of existing files so far
    run,        \* the ingestion run in progress, or Idle
    last,       \* the last operation and its arguments
    ret,        \* what the last operation returned, or that it raised
    handles,    \* the sqlite3 connections that are open
    line,       \* parser harness: the input line
    parsed,     \* parser harness: parse_action_log_line(line)
    ens,        \* concurrent ensure_month_db calls: files, dirs, callers
    dur,        \* _door_open_durations: events, position, open_ts, durations
    call        \* a function of routes_metrics.py being run: arguments, locals

vars ==
    <<shards, dirs, now, runs, run, last, ret, handles, line, parsed, ens, dur,
      call>>

\* the variables of the harnesses of the pure functions and of the ensure steps
harness == <<line, parsed, ens, dur, call>>

----------------------------------------------------------------------------
(* Bounds *)

MaxPieces == 5      \* pieces a message of the parser harness is built from
MaxLines == 2       \* lines of an ingested file
MaxRuns == 1        \* ingestion runs of existing files
MaxMonths == 11     \* months of the store of many shards
MaxProcs == 2       \* callers of ensure_month_db running at once
MaxEvents == 4      \* events of a sequence given to _door_open_durations
MaxScans == 3       \* events of a sequence given to _graph_badge_scan_latency
MaxBadges == 11     \* badges scanned once in the input of _graph_top_badge_users
MaxExtras == 2      \* further events in that input
MaxItems == 5       \* events of a short sequence given to _timeline
MaxRepeats == 3     \* ingestions of the same file
MaxTimers == 2      \* auto-lock timers the door controller creates

----------------------------------------------------------------------------
(* Text *)

SP == " "
_BADGE_PART == <<" ", "-", " ", "B", " ">>
_STATUS_PART == <<" ", "-", " ", "S", " ">>

\* Python's None and the "Unknown" sentinel: texts no token sequence equals
None == <<"None">>
Unknown == <<"Unknown">>

\* pat occurs in s starting at position i
OccursAt(s, pat, i) ==
    /\ i >= 1
    /\ i + Len(pat) - 1 <= Len(s)
    /\ \A j \in 1..Len(pat) : s[i + j - 1] = pat[j]

Occurrences(s, pat) == {i \in 1..Len(s) : OccursAt(s, pat, i)}

\* pat in s
Contains(s, pat) == Occurrences(s, pat) # {}

SetMin(S) == CHOOSE x \in S : \A y \in S : x <= y
SetMax(S) == CHOOSE x \in S : \A y \in S : y <= x

\* s.split(pat, 1): the list of one or two parts around the first occurrence
Split1(s, pat) ==
    IF ~Contains(s, pat) THEN <<s>>
    ELSE LET i == SetMin(Occurrences(s, pat))
         IN <<SubSeq(s, 1, i - 1), SubSeq(s, i + Len(pat), Len(s))>>

\* rsplit taken for split: the parts around the first occurrence
RSplit1AtFirst(s, pat) == Split1(s, pat)

\* s.rsplit(pat, 1): the list of one or two parts around the last occurrence
RSplit1(s, pat) ==
    IF ~Contains(s, pat) THEN <<s>>
    ELSE LET i == SetMax(Occurrences(s, pat))
         IN <<SubSeq(s, 1, i - 1), SubSeq(s, i + Len(pat), Len(s))>>

RECURSIVE LStrip(_)
LStrip(s) == IF s # <<>> /\ Head(s) = SP THEN LStrip(Tail(s)) ELSE s

RECURSIVE RStrip(_)
RStrip(s) ==
    IF s # <<>> /\ s[Len(s)] = SP THEN RStrip(SubSeq(s, 1, Len(s) - 1)) ELSE s

\* str.strip()
Strip(s) == LStrip(RStrip(s))

----------------------------------------------------------------------------
(* Log parser *)

Raise == [tag |-> "raise"]
Reject == [tag |-> "none"]

\* `x.strip() or default`
OrElse(x, default) == IF x = <<>> THEN default ELSE x

_parse_action_message(message) ==
    IF Contains(message, _BADGE_PART) /\ Contains(message, _STATUS_PART)
    THEN LET lr == Split1(message, _BADGE_PART)
             bs == RSplit1(lr[2], _STATUS_PART)
         IN IF Len(bs) # 2 THEN Raise      \* tuple unpacking of a 1-list
            ELSE IF Strip(lr[1]) = <<>> THEN Reject
            ELSE [tag |-> "rec",
                  event_type |-> Strip(lr[1]),
                  badge_id |-> OrElse(Strip(bs[1]), None),
                  status |-> OrElse(Strip(bs[2]), Unknown)]
    ELSE IF Contains(message, _STATUS_PART)
    THEN LET ls == RSplit1(message, _STATUS_PART)
         IN IF Strip(ls[1]) = <<>> THEN Reject
            ELSE [tag |-> "rec",
                  event_type |-> Strip(ls[1]),
                  badge_id |-> None,
                  status |-> OrElse(Strip(ls[2]), Unknown)]
    ELSE Reject

\* A line is [head, ts, msg]: head "ok" when the text up to the message has
\* the shape "<ts> - <field> - <SEVERITY> - ", "noshape" when it has not,
\* "blank" when the line is empty or whitespace; ts the leading timestamp;
\* msg the rest of the line up to its end.

\* line.strip(): the trailing whitespace of the line is that of its message
StripLine(l) == [l EXCEPT !.msg = RStrip(l.msg)]

\* _ACTION_LINE_RE.match(raw): the separator before the message ends with a
\* space, which strip() removed if nothing but whitespace followed it
ActionLineMatch(raw) == raw.head = "ok" /\ raw.msg # <<>>

parse_action_log_line(l) ==
    LET raw == StripLine(l)
    IN IF raw.head = "blank" THEN Reject
       ELSE IF ~ActionLineMatch(raw) THEN Reject
       ELSE LET p == _parse_action_message(raw.msg)
            IN IF p.tag # "rec" THEN p
               ELSE [tag |-> "rec",
                     event_type |-> p.event_type,
                     badge_id |-> p.badge_id,
                     status |-> p.status,
                     ts |-> raw.ts,
                     raw_message |-> raw]

----------------------------------------------------------------------------
(* Calendar *)

IsLeap(y) == (y % 4 = 0 /\ y % 100 # 0) \/ y % 400 = 0

DaysInMonth(y, m) ==
    IF m = 2 THEN (IF IsLeap(y) THEN 29 ELSE 28)
    ELSE IF m \in {4, 6, 9, 11} THEN 30 ELSE 31

\* datetime.strptime(text, "%Y-%m-%d %H:%M:%S") returns a datetime (and does
\* not raise ValueError) exactly for the calendar values
StrptimeOk(ts) ==
    /\ ts[1] \in 1..9999
    /\ ts[2] \in 1..12
    /\ ts[3] \in 1..DaysInMonth(ts[1], ts[2])
    /\ ts[4] \in 0..23
    /\ ts[5] \in 0..59
    /\ ts[6] \in 0..59

\* datetime.date()
DateOf(ts) == <<ts[1], ts[2], ts[3]>>

RECURSIVE LexLess(_, _)
LexLess(s, t) ==
    IF s = <<>> \/ t = <<>> THEN s = <<>> /\ t # <<>>
    ELSE IF Head(s) # Head(t) THEN Head(s) < Head(t)
    ELSE LexLess(Tail(s), Tail(t))

\* date < date, and the text comparison ts <= ? of SQLite on fixed-width text
DateLess(d, e) == LexLess(d, e)
TextLeq(s, t) == ~LexLess(t, s)

\* strftime("%Y-%d") for "%Y-%m"
_month_key_with_day(ts) == <<ts[1], ts[3]>>

\* "YYYY-MM" is written as the pair <<year, month>>
_month_key_for_datetime(ts) == <<ts[1], ts[2]>>

\* base/<year>/<month_key>.db is written as <<year, month_key>>
get_month_db_path(month_key) == <<month_key[1], month_key>>

\* os.path.dirname(db_path)
DirName(db_path) == db_path[1]

\* the greatest year of a date (datetime.MAXYEAR)
MAXYEAR == 9999

\* date(cur.year + 1, 1, 1) or date(cur.year, cur.month + 1, 1): the first
\* day of the next month, or the ValueError of a year that is out of range
NextMonth(cur) ==
    IF cur[2] = 12
    THEN (IF cur[1] + 1 > MAXYEAR THEN Raise
          ELSE [tag |-> "ok", date |-> <<cur[1] + 1, 1, 1>>])
    ELSE [tag |-> "ok", date |-> <<cur[1], cur[2] + 1, 1>>]

\* the while loop: [tag, months], tag "raise" when the step to the next
\* month raised
RECURSIVE MonthWalk(_, _, _)
MonthWalk(cur, final, months) ==
    IF DateLess(final, cur) THEN [tag |-> "ok", months |-> months]
    ELSE LET next == NextMonth(cur)
         IN IF next.tag = "raise" THEN [tag |-> "raise", months |-> <<>>]
            ELSE MonthWalk(next.date, final, Append(months, <<cur[1], cur[2]>>))

\* the walk bounded by the month numbers alone, the years ignored
month_keys_by_month_number(start_date, end_date) ==
    IF end_date[2] < start_date[2] THEN [tag |-> "ok", months |-> <<>>]
    ELSE MonthWalk(<<start_date[1], start_date[2], 1>>,
                   <<end_date[1], end_date[2], 1>>, <<>>)

month_keys_in_range(start_date, end_date) ==
    IF DateLess(end_date, start_date) THEN [tag |-> "ok", months |-> <<>>]
    ELSE MonthWalk(<<start_date[1], start_date[2], 1>>,
                   <<end_date[1], end_date[2], 1>>, <<>>)

----------------------------------------------------------------------------
(* Shard manager.  A store is [shards, dirs]; shards maps the path of every *)
(* existing month db to [rows, seq]: its committed events in rowid order    *)
(* and the AUTOINCREMENT counter of the events table.                       *)

EmptyShard == [rows |-> <<>>, seq |-> 0]

PathExists(st, db_path) == db_path \in DOMAIN st.shards

ensure_month_db(st, month_key) ==
    LET db_path == get_month_db_path(month_key)
    IN [shards |-> IF PathExists(st, db_path) THEN st.shards
                   ELSE st.shards @@ (db_path :> EmptyShard),
        dirs |-> st.dirs \cup {DirName(db_path)}]

----------------------------------------------------------------------------
(* Ingestor.  A run of ingest_action_log_file is [pc, file, conns, pending,  *)
(* order, commits, inserted, fresh, before]: file the lines read so far,    *)
(* conns the dict of connections (db path -> connection), pending the       *)
(* uncommitted inserts of the connections (keyed by db path), order the     *)
(* keys of conns still to be committed, in insertion order, commits the     *)
(* number of commits every db path received, inserted the counter, before   *)
(* the shards as they were when the run began.                              *)

\* an open sqlite3 connection: of the ingestor ("writer"), the in-memory
\* connection of a range query ("memory"), a db attached to it ("attached"),
\* the connection of a month query ("reader")
Handle(kind, db_path, id) == [kind |-> kind, path |-> db_path, id |-> id]

\* a lookup that never finds the connection
ConnsGetNone(conns, db_path) == 0

\* conns.get(db_path): the connection, or 0 for None
ConnsGet(conns, db_path) ==
    IF db_path \in DOMAIN conns THEN conns[db_path] ELSE 0

\* the five columns an INSERT binds
EventOf(p) ==
    [ts |-> p.ts, event_type |-> p.event_type, badge_id |-> p.badge_id,
     status |-> p.status, raw_message |-> p.raw_message]

\* rowids that start again at 1 in every transaction
StoredRowFromOne(e, seq, k) ==
    [id |-> k, ts |-> e.ts, event_type |-> e.event_type,
     badge_id |-> e.badge_id, status |-> e.status,
     raw_message |-> e.raw_message]

\* the row the events table stores for the k-th insert after counter seq
StoredRow(e, seq, k) ==
    [id |-> seq + k, ts |-> e.ts, event_type |-> e.event_type,
     badge_id |-> e.badge_id, status |-> e.status,
     raw_message |-> e.raw_message]

\* What one iteration of `for line in handle` does with line l:
\* "raise" (an exception leaves the loop), "skip" (continue), or "insert"
\* with the month key and the event.
LineOutcome(l) ==
    LET p == parse_action_log_line(l)
    IN IF p.tag = "raise" THEN [tag |-> "raise"]
       ELSE IF p.tag = "none" THEN [tag |-> "skip"]
       ELSE IF ~StrptimeOk(p.ts) THEN [tag |-> "raise"]
       ELSE [tag |-> "insert",
             month_key |-> _month_key_for_datetime(p.ts),
             event |-> EventOf(p)]

\* the insert that leaves the counter as it is
InsertPendingUncounted(r, db_path, event) ==
    [r EXCEPT
        !.conns = IF ConnsGet(r.conns, db_path) = 0
                  THEN (db_path :> Len(r.file)) @@ @ ELSE @,
        !.pending = IF db_path \in DOMAIN r.pending
                    THEN [r.pending EXCEPT ![db_path] = Append(@, event)]
                    ELSE r.pending @@ (db_path :> <<event>>),
        !.order = IF db_path \in DOMAIN r.pending THEN @ ELSE Append(@, db_path)]

\* conns.get(db_path), sqlite3.connect (the connection is numbered by the
\* line that opened it), conns[db_path] = conn, INSERT, inserted += 1
InsertPending(r, db_path, event) ==
    [r EXCEPT
        !.conns = IF ConnsGet(r.conns, db_path) = 0
                  THEN (db_path :> Len(r.file)) @@ @ ELSE @,
        !.pending = IF db_path \in DOMAIN r.pending
                    THEN [r.pending EXCEPT ![db_path] = Append(@, event)]
                    ELSE r.pending @@ (db_path :> <<event>>),
        !.order = IF db_path \in DOMAIN r.pending THEN @ ELSE Append(@, db_path),
        !.inserted = @ + 1]

\* a commit that stores the first pending insert only
CommitShardFirstRow(sh, new) ==
    [rows |-> sh.rows \o <<StoredRow(new[1], sh.seq, 1)>>,
     seq |-> sh.seq + 1]

\* a commit that replaces the rows of the table
CommitShardReplacing(sh, new) ==
    [rows |-> [k \in 1..Len(new) |-> StoredRow(new[k], sh.seq, k)],
     seq |-> sh.seq + Len(new)]

\* the finally block: `for conn in conns.values(): conn.close()`
CloseConns(hs, conns) ==
    hs \ {Handle("writer", db_path, conns[db_path]) : db_path \in DOMAIN conns}

\* conn.commit() of the connection of db_path
CommitShard(sh, new) ==
    [rows |-> sh.rows \o [k \in 1..Len(new) |-> StoredRow(new[k], sh.seq, k)],
     seq |-> sh.seq + Len(new)]

----------------------------------------------------------------------------
(* Query engine *)

RECURSIVE DbPathsWalk(_, _, _, _)
DbPathsWalk(st, now_key, keys, paths) ==
    IF keys = <<>> THEN [st |-> st, paths |-> paths]
    ELSE LET month_key == Head(keys)
             db_path == get_month_db_path(month_key)
         IN IF PathExists(st, db_path)
            THEN DbPathsWalk(st, now_key, Tail(keys), Append(paths, db_path))
            ELSE IF month_key = now_key
            THEN DbPathsWalk(ensure_month_db(st, month_key), now_key,
                             Tail(keys), Append(paths, db_path))
            ELSE DbPathsWalk(st, now_key, Tail(keys), paths)

\* the walk that creates the db of every month it does not find
RECURSIVE DbPathsWalkCreating(_, _, _)
DbPathsWalkCreating(st, keys, paths) ==
    IF keys = <<>> THEN [st |-> st, paths |-> paths]
    ELSE DbPathsWalkCreating(ensure_month_db(st, Head(keys)), Tail(keys),
                             Append(paths, get_month_db_path(Head(keys))))

db_paths_creating_every_month(st, now_key, start_date, end_date) ==
    LET keys == month_keys_in_range(start_date, end_date)
        walk == DbPathsWalkCreating(st, keys.months, <<>>)
    IN [tag |-> keys.tag, st |-> walk.st, paths |-> walk.paths]

\* [tag, st, paths]: tag "raise" when month_keys_in_range raised
db_paths_in_range(st, now_key, start_date, end_date) ==
    LET keys == month_keys_in_range(start_date, end_date)
        walk == DbPathsWalk(st, now_key, keys.months, <<>>)
    IN [tag |-> keys.tag, st |-> walk.st, paths |-> walk.paths]

\* SELECT ts, event_type, badge_id, status, raw_message, as _event_row
_event_row(row) ==
    [ts |-> row.ts, event_type |-> row.event_type, badge_id |-> row.badge_id,
     status |-> row.status, raw_message |-> row.raw_message]

\* WHERE ts >= ? AND ts < ?: the end of the range left out
WhereEndExclusive(row, start_ts, end_ts, event_types) ==
    /\ TextLeq(start_ts, row.ts)
    /\ LexLess(row.ts, end_ts)
    /\ (event_types # {} => row.event_type \in event_types)

\* WHERE ts >= ? AND ts <= ? [AND event_type IN (...)]; an empty or absent
\* event_types is the empty set
Where(row, start_ts, end_ts, event_types) ==
    /\ TextLeq(start_ts, row.ts)
    /\ TextLeq(row.ts, end_ts)
    /\ (event_types # {} => row.event_type \in event_types)

InsertAt(s, x, j) == SubSeq(s, 1, j - 1) \o <<x>> \o SubSeq(s, j, Len(s))

\* the code point of a character, and the BINARY collation of two texts
CodePoint(c) ==
    CASE c = " " -> 32 [] c = "-" -> 45 [] c = "B" -> 66 [] c = "S" -> 83
      [] c = "a" -> 97 [] c = "b" -> 98
Collation(text) == [i \in 1..Len(text) |-> CodePoint(text[i])]
CollatesLeq(s, t) == ~LexLess(Collation(t), Collation(s))

\* the walk of idx_events_event_type: the rows by event_type, those of one
\* event_type by id
RECURSIVE ByEventType(_)
ByEventType(s) ==
    IF s = <<>> THEN <<>>
    ELSE LET x == s[Len(s)]
             t == ByEventType(SubSeq(s, 1, Len(s) - 1))
             k == Cardinality({i \in 1..Len(t) :
                                  CollatesLeq(t[i].event_type, x.event_type)})
         IN InsertAt(t, x, k + 1)

\* the order in which SQLite visits the rows of events: without a filter it
\* walks idx_events_ts (rows of equal ts by id); with event_type IN (...)
\* it walks idx_events_event_type and sorts what it finds by ts, which
\* leaves rows of equal ts in the order of the walk
ScanOrder(rows, event_types) ==
    IF event_types = {} THEN rows ELSE ByEventType(rows)

RECURSIVE SelectEvents(_, _, _, _)
SelectEvents(rows, start_ts, end_ts, event_types) ==
    IF rows = <<>> THEN <<>>
    ELSE (IF Where(Head(rows), start_ts, end_ts, event_types)
          THEN <<_event_row(Head(rows))>> ELSE <<>>)
         \o SelectEvents(Tail(rows), start_ts, end_ts, event_types)

\* build_union_all_query over the attached dbs, in attachment order
RECURSIVE UnionAll(_, _, _, _, _)
UnionAll(st, paths, start_ts, end_ts, event_types) ==
    IF paths = <<>> THEN <<>>
    ELSE SelectEvents(ScanOrder(st.shards[Head(paths)].rows, event_types),
                      start_ts, end_ts, event_types)
         \o UnionAll(st, Tail(paths), start_ts, end_ts, event_types)

\* the ORDER BY clause left out: the rows in the order of the union
NoOrderBy(s) == s

\* ORDER BY ts ASC: insertion of each row after the rows not greater than
\* it; rows of equal ts stay in the order in which they were visited
RECURSIVE OrderByTs(_)
OrderByTs(s) ==
    IF s = <<>> THEN <<>>
    ELSE LET x == s[Len(s)]
             t == OrderByTs(SubSeq(s, 1, Len(s) - 1))
             k == Cardinality({i \in 1..Len(t) : TextLeq(t[i].ts, x.ts)})
         IN InsertAt(t, x, k + 1)

\* the number of databases SQLite lets one connection attach
SQLITE_MAX_ATTACHED == 10

\* attach_databases(conn, db_paths): the connections open afterwards, and
\* the OperationalError of the ATTACH that exceeds the limit
attach_databases(db_paths) ==
    LET n == IF Len(db_paths) > SQLITE_MAX_ATTACHED
             THEN SQLITE_MAX_ATTACHED ELSE Len(db_paths)
    IN [tag |-> IF Len(db_paths) > SQLITE_MAX_ATTACHED THEN "raise" ELSE "ok",
        opened |-> {Handle("memory", <<0, <<0, 0>>>>, 0)}
                   \cup {Handle("attached", db_paths[i], i - 1) : i \in 1..n}]

\* a finally block that closes nothing
conn_close_skipped(opened) == opened

\* conn.close(): the connection is released, and with it every database
\* attached to it; what stays open
conn_close(opened) == {}

\* a query that takes the absence of every shard of the range for an error
query_events_range_needing_a_shard(st, now_key, start_ts, end_ts, event_types) ==
    LET dp == db_paths_in_range(st, now_key, DateOf(start_ts), DateOf(end_ts))
    IN IF dp.tag = "raise" \/ dp.paths = <<>>
       THEN [st |-> dp.st, tag |-> "raise", rows |-> <<>>, open |-> {}]
       ELSE [st |-> dp.st, tag |-> "ok", open |-> {},
             rows |-> OrderByTs(UnionAll(dp.st, dp.paths, start_ts, end_ts,
                                         event_types))]

\* The store afterwards, the connections left open, and the rows in ts
\* order (rows of equal ts in the order of ScanOrder), or the raise of
\* strptime, of month_keys_in_range or of ATTACH.
query_events_range(st, now_key, start_ts, end_ts, event_types) ==
    IF ~StrptimeOk(start_ts) \/ ~StrptimeOk(end_ts)
    THEN [st |-> st, tag |-> "raise", rows |-> <<>>, open |-> {}]
    ELSE LET dp == db_paths_in_range(st, now_key, DateOf(start_ts), DateOf(end_ts))
             att == attach_databases(dp.paths)
         IN IF dp.tag = "raise"
            THEN [st |-> dp.st, tag |-> "raise", rows |-> <<>>, open |-> {}]
            ELSE IF dp.paths = <<>>
            THEN [st |-> dp.st, tag |-> "ok", rows |-> <<>>, open |-> {}]
            ELSE IF att.tag = "raise"
            THEN [st |-> dp.st, tag |-> "raise", rows |-> <<>>,
                  open |-> conn_close(att.opened)]
            ELSE [st |-> dp.st, tag |-> "ok", open |-> conn_close(att.opened),
                  rows |-> OrderByTs(UnionAll(dp.st, dp.paths, start_ts, end_ts,
                                              event_types))]

RECURSIVE AllEvents(_)
AllEvents(rows) ==
    IF rows = <<>> THEN <<>>
    ELSE <<_event_row(Head(rows))>> \o AllEvents(Tail(rows))

query_month_events(st, month_key) ==
    LET db_path == get_month_db_path(month_key)
    IN IF ~PathExists(st, db_path) THEN <<>>
       ELSE OrderByTs(AllEvents(st.shards[db_path].rows))

\* the connections query_month_events leaves open
query_month_open(st, month_key) ==
    LET db_path == get_month_db_path(month_key)
    IN IF ~PathExists(st, db_path) THEN {}
       ELSE conn_close({Handle("reader", db_path, 0)})

\* a month query that creates the db it does not find
query_month_store_ensuring(st, month_key) == ensure_month_db(st, month_key)

\* the store after query_month_events: as it was
query_month_store(st, month_key) == st

\* csv.writer: a field that is None is written as the empty field
CsvField(x) == IF x = None THEN <<>> ELSE x

CsvHeader == <<"ts", "event_type", "badge_id", "status", "raw_message">>

\* month_events_to_csv(events): the header row, then one row per event
month_events_to_csv(events) ==
    <<CsvHeader>> \o
    [i \in 1..Len(events) |->
        <<events[i].ts, events[i].event_type, CsvField(events[i].badge_id),
          events[i].status, events[i].raw_message>>]

\* the values of the format parameter: one-token texts
FormatCsv == <<"csv">>
FormatCsvUpper == <<"CSV">>
FormatJson == <<"json">>
FormatJsonMixed == <<"Json">>
FormatXml == <<"xml">>

\* query.get("format", ["json"])[0]
FormatGet(format) == IF format = <<>> THEN FormatJson ELSE format

\* a format compared as it is written
FormatAsWritten(fmt) == fmt

\* str.lower() on the format
FormatLower(fmt) ==
    IF fmt = FormatCsvUpper THEN FormatCsv
    ELSE IF fmt = FormatJsonMixed THEN FormatJson
    ELSE fmt

\* _write_json(handler, payload, status_code), and `return True`
WriteJson(payload, status_code) ==
    [status_code |-> status_code, content_type |-> "application/json",
     body |-> payload, handled |-> TRUE]

\* the answer of the export once the month's events are read
ExportAnswer(events, fmt) ==
    IF fmt = FormatCsv
    THEN [status_code |-> 200, content_type |-> "text/csv; charset=utf-8",
          body |-> month_events_to_csv(events), handled |-> TRUE]
    ELSE IF fmt = FormatJson
    THEN [status_code |-> 200,
          content_type |-> "application/json; charset=utf-8",
          body |-> events, handled |-> TRUE]
    ELSE WriteJson([error |-> "format must be csv or json"], 400)

----------------------------------------------------------------------------
(* Inputs *)

TNov == <<2025, 11, 30, 23, 59, 59>>
TDec == <<2025, 12, 31, 23, 59, 59>>
TJan == <<2026, 1, 1, 0, 0, 0>>
TJan1 == <<2026, 1, 1, 0, 0, 1>>
TMonth13 == <<2025, 13, 1, 0, 0, 0>>
TLast == <<MAXYEAR, 12, 31, 23, 59, 59>>

TypeA == <<"a">>
TypeB == <<"b">>

Msg(event_type, badge, status) ==
    event_type \o (IF badge = <<>> THEN <<>> ELSE _BADGE_PART \o badge)
               \o _STATUS_PART \o status

OkLine(ts, msg) == [head |-> "ok", ts |-> ts, msg |-> msg]

\* the lines a log file is made of: three well-formed ones on both sides of
\* a year boundary (two of them in the same month), and three bad ones
LineDec == OkLine(TDec, Msg(TypeB, <<>>, <<"a">>))
LineJan == OkLine(TJan, Msg(TypeA, <<"b">>, <<"a">>))
LineJan1 == OkLine(TJan1, Msg(TypeB, <<>>, <<"b">>))
LineNoShape == [head |-> "noshape", ts |-> TDec, msg |-> Msg(TypeA, <<>>, <<"a">>)]
LineMonth13 == OkLine(TMonth13, Msg(TypeA, <<>>, <<"a">>))
LineStatusFirst == OkLine(TDec, TypeA \o _STATUS_PART \o <<"a">> \o _BADGE_PART \o <<"b">>)

FileLines ==
    {LineDec, LineJan, LineJan1, LineNoShape, LineMonth13, LineStatusFirst}

\* query ranges: every start <= end, one reversed range, and the last
\* second a timestamp can hold
QueryTs == {TNov, TDec, TJan1}
QueryRanges ==
    {r \in QueryTs \X QueryTs : TextLeq(r[1], r[2])}
        \cup {<<TJan, TDec>>, <<TLast, TLast>>}
Filters == {{}, {TypeA}}
MonthKeys == {<<2025, 11>>, <<2025, 12>>, <<2026, 1>>}
NowKeys == {<<2025, 11>>}

\* the month ensure_month_db is called for on its own, and the month exported
EnsuredKeys == {<<2025, 12>>}
ExportKeys == {<<2026, 1>>}

\* messages of the parser harness: up to MaxPieces pieces, among them a
\* status marker without its leading space
StatusTail == <<"-", " ", "S", " ">>
Pieces == {_BADGE_PART, _STATUS_PART, StatusTail, <<"a">>, <<"b">>, <<" ">>}

RECURSIVE Messages(_)
Messages(n) ==
    IF n = 0 THEN {<<>>}
    ELSE LET M == Messages(n - 1) IN M \cup {m \o p : m \in M, p \in Pieces}

ParseLines ==
    {OkLine(ts, m) : ts \in {TDec, TJan}, m \in Messages(MaxPieces)}
    \cup {[head |-> h, ts |-> TDec, msg |-> m] :
            h \in {"noshape", "blank"}, m \in {<<>>, <<" ">>}}
    \cup {LineNoShape}

----------------------------------------------------------------------------
(* The store and its operations *)

Store == [shards |-> shards, dirs |-> dirs]

NoLine == [head |-> "blank", ts |-> TDec, msg |-> <<>>]
NotParsed == [tag |-> "idle"]
Idle == [pc |-> "idle"]
NoRet == [tag |-> "none", value |-> 0]

NoEns == [files |-> <<>>, dirs |-> {}, procs |-> <<>>, stored |-> <<>>]
NoDur == [events |-> <<>>, i |-> 0, open_ts |-> None, durations |-> <<>>,
          bucket |-> <<>>]
NoCall == [fn |-> "none"]

\* the store after ingest_action_log_file of a file of accepted lines of
\* distinct months: every line's db ensured, its one insert committed
RECURSIVE StoreAfterIngest(_, _)
StoreAfterIngest(st, file) ==
    IF file = <<>> THEN st
    ELSE LET o == LineOutcome(Head(file))
             made == ensure_month_db(st, o.month_key)
             db_path == get_month_db_path(o.month_key)
         IN StoreAfterIngest(
                [shards |-> [made.shards EXCEPT
                                ![db_path] = CommitShard(@, <<o.event>>)],
                 dirs |-> made.dirs],
                Tail(file))

\* the stores a run begins with: the empty one, and the one an earlier
\* ingestion of a file of one event left
EarlierFiles == {<<>>, <<LineJan1>>}

Init ==
    /\ \E file \in EarlierFiles :
          \E st \in {StoreAfterIngest([shards |-> <<>>, dirs |-> {}], file)} :
              /\ shards = st.shards
              /\ dirs = st.dirs
    /\ now \in NowKeys
    /\ runs = 0
    /\ run = Idle
    /\ last = [op |-> "init"]
    /\ ret = NoRet
    /\ handles = {}
    /\ line = NoLine
    /\ parsed = NotParsed
    /\ ens = NoEns
    /\ dur = NoDur
    /\ call = NoCall

\* every existing shard is empty
Fresh == \A db_path \in DOMAIN shards : shards[db_path].rows = <<>>

\* what `last` records of an ingestion that ended
IngestEnd(exists, file, fresh, interrupted) ==
    [op |-> "ingest", exists |-> exists, file |-> file, fresh |-> fresh,
     interrupted |-> interrupted]

\* the existence check made after the current month's db is ensured
IngestMissingAfterEnsure ==
    /\ run.pc = "idle"
    /\ \E st \in {ensure_month_db(Store, now)} :
          /\ shards' = st.shards
          /\ dirs' = st.dirs
    /\ ret' = [tag |-> "ok", value |-> 0]
    /\ last' = IngestEnd(FALSE, <<>>, Fresh, FALSE)
    /\ UNCHANGED <<now, runs, run, handles, harness>>

\* ingest_action_log_file(path) when os.path.exists(path) is false
IngestMissing ==
    /\ run.pc = "idle"
    /\ ret' = [tag |-> "ok", value |-> 0]
    /\ last' = IngestEnd(FALSE, <<>>, Fresh, FALSE)
    /\ UNCHANGED <<shards, dirs, now, runs, run, handles, harness>>

\* ingest_action_log_file(path) of an existing file: up to open(path)
IngestOpen ==
    /\ run.pc = "idle"
    /\ runs < MaxRuns
    /\ runs' = runs + 1
    /\ run' = [pc |-> "read", file |-> <<>>, conns |-> <<>>, pending |-> <<>>,
               order |-> <<>>, commits |-> <<>>, inserted |-> 0,
               fresh |-> Fresh, before |-> shards]
    /\ last' = [op |-> "ingesting"]
    /\ ret' = NoRet
    /\ UNCHANGED <<shards, dirs, now, handles, harness>>

\* one iteration of the loop, on the next line l of the file; an exception
\* runs the finally block (every connection closed, its inserts rolled
\* back) and leaves the call
ReadLine(l) ==
    /\ run.pc = "read"
    /\ Len(run.file) < MaxLines
    /\ \E o \in {LineOutcome(l)} :
        \/ /\ o.tag = "raise"
           /\ run' = Idle
           /\ ret' = [tag |-> "raise", value |-> 0]
           /\ last' = IngestEnd(TRUE, Append(run.file, l), run.fresh, FALSE)
           /\ handles' = CloseConns(handles, run.conns)
           /\ UNCHANGED <<shards, dirs>>
        \/ /\ o.tag = "skip"
           /\ run' = [run EXCEPT !.file = Append(@, l)]
           /\ UNCHANGED <<shards, dirs, last, ret, handles>>
        \/ /\ o.tag = "insert"
           /\ \E st \in {ensure_month_db(Store, o.month_key)} :
                /\ shards' = st.shards
                /\ dirs' = st.dirs
           /\ \E r \in {InsertPending([run EXCEPT !.file = Append(@, l)],
                                      get_month_db_path(o.month_key), o.event)} :
                /\ run' = r
                /\ handles' = handles \cup
                      {Handle("writer", get_month_db_path(o.month_key),
                              r.conns[get_month_db_path(o.month_key)])}
           /\ UNCHANGED <<last, ret>>
    /\ UNCHANGED <<now, runs, harness>>

\* the file is exhausted: on to `for conn in conns.values(): conn.commit()`
EndOfFile ==
    /\ run.pc = "read"
    /\ run' = [run EXCEPT !.pc = "commit"]
    /\ UNCHANGED <<shards, dirs, now, runs, last, ret, handles, harness>>

\* conn.commit() of the next connection
CommitNext ==
    /\ run.pc = "commit"
    /\ run.order # <<>>
    /\ LET db_path == Head(run.order)
       IN /\ shards' = [shards EXCEPT
                           ![db_path] = CommitShard(@, run.pending[db_path])]
          /\ run' = [run EXCEPT
                        !.order = Tail(@),
                        !.commits = IF db_path \in DOMAIN @
                                    THEN [@ EXCEPT ![db_path] = @ + 1]
                                    ELSE @ @@ (db_path :> 1)]
    /\ UNCHANGED <<dirs, now, runs, last, ret, handles, harness>>

\* a return that does not wait for the commits still to be made
IngestReturnEarly ==
    /\ run.pc = "commit"
    /\ run' = Idle
    /\ ret' = [tag |-> "ok", value |-> run.inserted]
    /\ last' = IngestEnd(TRUE, run.file, run.fresh, FALSE)
    /\ handles' = CloseConns(handles, run.conns)
    /\ UNCHANGED <<shards, dirs, now, runs, harness>>

\* every connection committed: the finally block closes them, return inserted
IngestReturn ==
    /\ run.pc = "commit"
    /\ run.order = <<>>
    /\ run' = Idle
    /\ ret' = [tag |-> "ok", value |-> run.inserted]
    /\ last' = IngestEnd(TRUE, run.file, run.fresh, FALSE)
    /\ handles' = CloseConns(handles, run.conns)
    /\ UNCHANGED <<shards, dirs, now, runs, harness>>

\* the run is interrupted, or a statement, a commit or the reading of the
\* file raises: the finally block closes every connection of conns, the
\* inserts not yet committed are rolled back
Interrupt ==
    /\ run.pc \in {"read", "commit"}
    /\ run' = Idle
    /\ ret' = [tag |-> "raise", value |-> 0]
    /\ last' = IngestEnd(TRUE, run.file, run.fresh, TRUE)
    /\ handles' = CloseConns(handles, run.conns)
    /\ UNCHANGED <<shards, dirs, now, runs, harness>>

\* ensure_month_db(month_key) called on its own
Ensure(month_key) ==
    /\ run.pc = "idle"
    /\ \E st \in {ensure_month_db(Store, month_key)} :
          /\ shards' = st.shards
          /\ dirs' = st.dirs
    /\ ret' = [tag |-> "ok", value |-> get_month_db_path(month_key)]
    /\ last' = [op |-> "ensure", month_key |-> month_key]
    /\ UNCHANGED <<now, runs, run, handles, harness>>

QueryRange(start_ts, end_ts, event_types) ==
    /\ run.pc = "idle"
    /\ \E q \in {query_events_range(Store, now, start_ts, end_ts, event_types)} :
          /\ shards' = q.st.shards
          /\ dirs' = q.st.dirs
          /\ handles' = handles \cup q.open
          /\ ret' = [tag |-> q.tag, value |-> q.rows]
    /\ last' = [op |-> "range", start_ts |-> start_ts, end_ts |-> end_ts,
                event_types |-> event_types, existed |-> DOMAIN shards]
    /\ UNCHANGED <<now, runs, run, harness>>

QueryMonth(month_key) ==
    /\ run.pc = "idle"
    /\ ret' = [tag |-> "ok", value |-> query_month_events(Store, month_key)]
    /\ \E st \in {query_month_store(Store, month_key)} :
          /\ shards' = st.shards
          /\ dirs' = st.dirs
    /\ handles' = handles \cup query_month_open(Store, month_key)
    /\ last' = [op |-> "month", month_key |-> month_key, existed |-> DOMAIN shards]
    /\ UNCHANGED <<now, runs, run, harness>>

\* GET /api/metrics/export: handle_metrics_api_get with the values of month
\* and format, <<>> for one that is missing or blank; the answer written to
\* the handler and the value returned
Export(month_key, format) ==
    /\ run.pc = "idle"
    /\ IF month_key = <<>>
       THEN /\ ret' = [tag |-> "ok",
                       value |-> WriteJson([error |-> "month is required"], 400)]
            /\ UNCHANGED <<shards, dirs, handles>>
       ELSE /\ ret' = [tag |-> "ok",
                       value |-> ExportAnswer(query_month_events(Store, month_key),
                                              FormatLower(FormatGet(format)))]
            /\ \E st \in {query_month_store(Store, month_key)} :
                  /\ shards' = st.shards
                  /\ dirs' = st.dirs
            /\ handles' = handles \cup query_month_open(Store, month_key)
    /\ last' = [op |-> "export", month_key |-> month_key, format |-> format,
                existed |-> DOMAIN shards]
    /\ UNCHANGED <<now, runs, run, harness>>

Next ==
    \/ IngestMissing
    \/ IngestOpen
    \/ \E l \in FileLines : ReadLine(l)
    \/ EndOfFile
    \/ CommitNext
    \/ IngestReturn
    \/ Interrupt
    \/ \E k \in EnsuredKeys : Ensure(k)
    \/ \E r \in QueryRanges, f \in Filters : QueryRange(r[1], r[2], f)
    \/ \E k \in MonthKeys : QueryMonth(k)
    \/ \E k \in ExportKeys : Export(k, FormatCsv)

Spec == Init /\ [][Next]_vars

----------------------------------------------------------------------------
(* Queries over a store of many shards: the store left by the ingestion of *)
(* a file with one event in the first second of each of the first n months *)
(* from January 2025 on.                                                   *)

\* the i-th month from January 2025, and its first second
NthMonth(i) == <<2025 + ((i - 1) \div 12), ((i - 1) % 12) + 1>>
NthMonthTs(i) == <<NthMonth(i)[1], NthMonth(i)[2], 1, 0, 0, 0>>
NthMonthLine(i) == OkLine(NthMonthTs(i), Msg(TypeA, <<>>, <<"a">>))

InitAttach ==
    /\ \E n \in 0..MaxMonths :
          \E st \in {StoreAfterIngest([shards |-> <<>>, dirs |-> {}],
                                      [i \in 1..n |-> NthMonthLine(i)])} :
              /\ shards = st.shards
              /\ dirs = st.dirs
    /\ now = NthMonth(1)
    /\ runs = 0
    /\ run = Idle
    /\ last = [op |-> "init"]
    /\ ret = NoRet
    /\ handles = {}
    /\ line = NoLine
    /\ parsed = NotParsed
    /\ ens = NoEns
    /\ dur = NoDur
    /\ call = NoCall

NextAttach ==
    \/ \E i \in 1..MaxMonths, j \in 1..MaxMonths, f \in Filters :
          i <= j /\ QueryRange(NthMonthTs(i), NthMonthTs(j), f)
    \/ \E i \in 1..MaxMonths : QueryMonth(NthMonth(i))
    \/ \E i \in 1..MaxMonths : Export(NthMonth(i), FormatCsv)

SpecAttach == InitAttach /\ [][NextAttach]_vars

\* Export requests over such a store: with and without month, for months
\* with and without a shard, in every format
ExportMonths == {<<>>} \cup {NthMonth(i) : i \in 1..(MaxMonths + 1)}
ExportFormats ==
    {<<>>, FormatCsv, FormatCsvUpper, FormatJson, FormatJsonMixed, FormatXml}

NextExport ==
    \E month_key \in ExportMonths, format \in ExportFormats :
        Export(month_key, format)

SpecExport == InitAttach /\ [][NextExport]_vars

----------------------------------------------------------------------------
(* ensure_month_db step by step, run by several callers at once.  A db     *)
(* file is [table, indexes, rows]: whether the events table exists, which  *)
(* of the three indexes of EVENTS_INDEX_SQL exist, the stored events.      *)
(* Every SQL statement is one step: SQLite runs the statements of          *)
(* different connections on one file one after another.                    *)

EmptyFile == [table |-> FALSE, indexes |-> {}, rows |-> <<>>]

\* the positions of the statements of EVENTS_INDEX_SQL
IndexNumbers == 1..3

\* CREATE TABLE events (...): an error when the table exists
CreateTable(f) ==
    IF f.table THEN [tag |-> "raise", file |-> f]
    ELSE [tag |-> "ok", file |-> [f EXCEPT !.table = TRUE]]

\* EVENTS_TABLE_SQL: CREATE TABLE IF NOT EXISTS events (...)
CreateTableIfNotExists(f) ==
    [tag |-> "ok", file |-> [f EXCEPT !.table = TRUE]]

\* EVENTS_INDEX_SQL[i - 1]: CREATE INDEX IF NOT EXISTS ... ON events(...);
\* an error when there is no table events
CreateIndexIfNotExists(f, i) ==
    IF ~f.table THEN [tag |-> "raise", file |-> f]
    ELSE [tag |-> "ok", file |-> [f EXCEPT !.indexes = @ \cup {i}]]

EnsureKeys == {<<2025, 12>>, <<2026, 1>>}
Procs == 1..MaxProcs

\* a db with its schema and one stored event
StoredFile ==
    [table |-> TRUE, indexes |-> IndexNumbers,
     rows |-> <<StoredRow(EventOf(parse_action_log_line(LineDec)), 0, 1)>>]

NotCalling == [pc |-> "idle"]

InitEnsure ==
    /\ shards = <<>>
    /\ dirs = {}
    /\ now = <<2025, 12>>
    /\ runs = 0
    /\ run = Idle
    /\ last = [op |-> "init"]
    /\ ret = NoRet
    /\ handles = {}
    /\ line = NoLine
    /\ parsed = NotParsed
    /\ dur = NoDur
    /\ call = NoCall
    /\ \E stored \in {<<>>, get_month_db_path(<<2025, 12>>) :> StoredFile} :
          ens = [files |-> stored,
                 dirs |-> {DirName(db_path) : db_path \in DOMAIN stored},
                 procs |-> [p \in Procs |-> NotCalling],
                 stored |-> stored]

\* the call: db_path = get_month_db_path(month_key)
EnsureCall(p, month_key) ==
    /\ ens.procs[p].pc \in {"idle", "returned"}
    /\ ens' = [ens EXCEPT !.procs[p] =
                  [pc |-> "makedirs", month_key |-> month_key,
                   db_path |-> get_month_db_path(month_key)]]

\* os.makedirs(db_dir, exist_ok=True)
EnsureMakedirs(p) ==
    /\ ens.procs[p].pc = "makedirs"
    /\ ens' = [ens EXCEPT !.dirs = @ \cup {DirName(ens.procs[p].db_path)},
                          !.procs[p].pc = "connect"]

\* sqlite3.connect(db_path): the file is created, empty, when it is absent
EnsureConnect(p) ==
    /\ ens.procs[p].pc = "connect"
    /\ LET db_path == ens.procs[p].db_path
       IN ens' = [ens EXCEPT
                    !.files = IF db_path \in DOMAIN @ THEN @
                              ELSE @ @@ (db_path :> EmptyFile),
                    !.procs[p].pc = "table"]

\* what a caller is left with when a statement raised: the finally block
\* closes the connection, the exception leaves the call
Raised(proc) == [pc |-> "returned", month_key |-> proc.month_key,
                 ret |-> [tag |-> "raise", value |-> <<>>]]

\* conn.execute(EVENTS_TABLE_SQL)
EnsureCreateTable(p) ==
    /\ ens.procs[p].pc = "table"
    /\ LET db_path == ens.procs[p].db_path
           done == CreateTableIfNotExists(ens.files[db_path])
       IN ens' = [ens EXCEPT
                    !.files[db_path] = done.file,
                    !.procs[p] = IF done.tag = "raise" THEN Raised(@)
                                 ELSE [pc |-> "index", month_key |-> @.month_key,
                                       db_path |-> @.db_path, i |-> 1]]

\* one conn.execute(stmt) of `for stmt in EVENTS_INDEX_SQL`
EnsureCreateIndex(p) ==
    /\ ens.procs[p].pc = "index"
    /\ LET db_path == ens.procs[p].db_path
           i == ens.procs[p].i
           done == CreateIndexIfNotExists(ens.files[db_path], i)
       IN ens' = [ens EXCEPT
                    !.files[db_path] = done.file,
                    !.procs[p] = IF done.tag = "raise" THEN Raised(@)
                                 ELSE IF i = 3
                                 THEN [pc |-> "close", month_key |-> @.month_key,
                                       db_path |-> @.db_path]
                                 ELSE [@ EXCEPT !.i = i + 1]]

\* conn.commit(), the finally block's conn.close(), return db_path
EnsureReturn(p) ==
    /\ ens.procs[p].pc = "close"
    /\ ens' = [ens EXCEPT !.procs[p] =
                  [pc |-> "returned", month_key |-> @.month_key,
                   ret |-> [tag |-> "ok", value |-> @.db_path]]]

NextEnsure ==
    /\ \E p \in Procs :
          \/ \E month_key \in EnsureKeys : EnsureCall(p, month_key)
          \/ EnsureMakedirs(p)
          \/ EnsureConnect(p)
          \/ EnsureCreateTable(p)
          \/ EnsureCreateIndex(p)
          \/ EnsureReturn(p)
    /\ UNCHANGED <<shards, dirs, now, runs, run, last, ret, handles, line,
                   parsed, dur, call>>

SpecEnsure == InitEnsure /\ [][NextEnsure]_vars

----------------------------------------------------------------------------
(* The door-open durations of lib/server/routes_metrics.py: the loop of    *)
(* _door_open_durations one event at a time, then the buckets of           *)
(* _graph_door_open_duration.                                              *)

DoorOpen == <<"Door OPEN/UNLOCKED">>
DoorClosed == <<"Door CLOSED/LOCKED">>
BadgeScan == <<"Badge Scan">>

\* the days from 2000-01-01 to the date, and the seconds to the timestamp
LeapYearsBefore(y) == ((y - 1) \div 4) - ((y - 1) \div 100) + ((y - 1) \div 400)

RECURSIVE DaysBeforeMonth(_, _)
DaysBeforeMonth(y, m) ==
    IF m = 1 THEN 0 ELSE DaysBeforeMonth(y, m - 1) + DaysInMonth(y, m - 1)

DayNumber(y, m, d) ==
    365 * (y - 2000) + (LeapYearsBefore(y) - LeapYearsBefore(2000))
        + DaysBeforeMonth(y, m) + (d - 1)

SecondsOf(ts) ==
    ((DayNumber(ts[1], ts[2], ts[3]) * 24 + ts[4]) * 60 + ts[5]) * 60 + ts[6]

\* (ts - open_ts).total_seconds()
total_seconds(ts, open_ts) == SecondsOf(ts) - SecondsOf(open_ts)

\* _event_ts(event): the datetime of event["ts"], None when strptime raises
_event_ts(event) == IF StrptimeOk(event.ts) THEN event.ts ELSE None

\* the body of the loop with an open that leaves a pending open in place
DurationsStepKeepingFirstOpen(d, event) ==
    LET ts == _event_ts(event)
    IN IF ts = None THEN d
       ELSE IF event.event_type = DoorOpen
       THEN (IF d.open_ts = None THEN [d EXCEPT !.open_ts = ts] ELSE d)
       ELSE IF event.event_type = DoorClosed /\ d.open_ts # None
       THEN [d EXCEPT
               !.durations = IF TextLeq(d.open_ts, ts)
                             THEN Append(@, <<d.open_ts, total_seconds(ts, d.open_ts)>>)
                             ELSE @,
               !.open_ts = None]
       ELSE d

\* the body of the loop of _door_open_durations, on [open_ts, durations]
DurationsStep(d, event) ==
    LET ts == _event_ts(event)
    IN IF ts = None THEN d
       ELSE IF event.event_type = DoorOpen THEN [d EXCEPT !.open_ts = ts]
       ELSE IF event.event_type = DoorClosed /\ d.open_ts # None
       THEN [d EXCEPT
               !.durations = IF TextLeq(d.open_ts, ts)
                             THEN Append(@, <<d.open_ts, total_seconds(ts, d.open_ts)>>)
                             ELSE @,
               !.open_ts = None]
       ELSE d

\* the whole loop
RECURSIVE DurationsLoop(_, _)
DurationsLoop(d, events) ==
    IF events = <<>> THEN d
    ELSE DurationsLoop(DurationsStep(d, Head(events)), Tail(events))

_door_open_durations(events) ==
    DurationsLoop([open_ts |-> None, durations |-> <<>>], events).durations

\* bucket[ts.date().isoformat()].append(value) for every sample: the
\* values of every day, in the order of the samples
RECURSIVE ValuesOfDay(_, _)
ValuesOfDay(durations, day) ==
    IF durations = <<>> THEN <<>>
    ELSE (IF DateOf(Head(durations)[1]) = day THEN <<Head(durations)[2]>> ELSE <<>>)
         \o ValuesOfDay(Tail(durations), day)

DurationBuckets(durations) ==
    [day \in {DateOf(durations[k][1]) : k \in 1..Len(durations)} |->
        ValuesOfDay(durations, day)]

\* the timestamps of the events: five minutes apart, and on both sides of
\* the midnight that ends the year
DurationTs ==
    {<<2025, 12, 31, 10, 0, 0>>, <<2025, 12, 31, 10, 5, 0>>,
     <<2025, 12, 31, 23, 59, 59>>, <<2026, 1, 1, 0, 0, 1>>}
DurationTypes == {DoorOpen, DoorClosed, BadgeScan}

\* the sequences of at most n events in ascending order of timestamp
RECURSIVE AscendingEvents(_)
AscendingEvents(n) ==
    IF n = 0 THEN {<<>>}
    ELSE LET S == AscendingEvents(n - 1)
         IN S \cup {Append(sp[1], [ts |-> sp[2], event_type |-> e]) :
                        sp \in {x \in S \X DurationTs :
                                  /\ Len(x[1]) = n - 1
                                  /\ x[1] # <<>> =>
                                        TextLeq(x[1][n - 1].ts, x[2])},
                        e \in DurationTypes}

IsAscending(events) ==
    \A k \in 1..(Len(events) - 1) : TextLeq(events[k].ts, events[k + 1].ts)

InitDurations ==
    /\ shards = <<>>
    /\ dirs = {}
    /\ now = <<2025, 12>>
    /\ runs = 0
    /\ run = Idle
    /\ last = [op |-> "init"]
    /\ ret = NoRet
    /\ handles = {}
    /\ line = NoLine
    /\ parsed = NotParsed
    /\ ens = NoEns
    /\ call = NoCall
    /\ \E events \in {x \in AscendingEvents(MaxEvents) : IsAscending(x)} :
          dur = [events |-> events, i |-> 0, open_ts |-> None,
                 durations |-> <<>>, bucket |-> <<>>]

\* one iteration of `for event in events`
DurationIteration ==
    /\ dur.i < Len(dur.events)
    /\ \E d \in {DurationsStep([open_ts |-> dur.open_ts,
                                 durations |-> dur.durations],
                                dur.events[dur.i + 1])} :
          dur' = [dur EXCEPT !.i = @ + 1, !.open_ts = d.open_ts,
                             !.durations = d.durations]
    /\ UNCHANGED <<shards, dirs, now, runs, run, last, ret, handles, line,
                   parsed, ens, call>>

\* the loop is over: _graph_door_open_duration buckets the samples
DurationGraph ==
    /\ dur.i = Len(dur.events)
    /\ dur.bucket = <<>>
    /\ dur.durations # <<>>
    /\ dur' = [dur EXCEPT !.bucket = DurationBuckets(dur.durations)]
    /\ UNCHANGED <<shards, dirs, now, runs, run, last, ret, handles, line,
                   parsed, ens, call>>

NextDurations == DurationIteration \/ DurationGraph

SpecDurations == InitDurations /\ [][NextDurations]_vars

----------------------------------------------------------------------------
(* The scan-to-open latency of lib/server/routes_metrics.py: the loop of   *)
(* _graph_badge_scan_latency one event at a time.  A status is a one-token *)
(* text; the tokens "Granted", "granted" and "Denied" stand for the words. *)

Granted == <<"Granted">>
GrantedLower == <<"granted">>
Denied == <<"Denied">>

\* str.lower() on the status texts
Lower(status) == IF status = Granted THEN GrantedLower ELSE status

\* _status_is(event, expected): strip().lower() of both sides agree
_status_is(event, expected) == Lower(Strip(event.status)) = Lower(expected)

\* `if badge_id`: neither None nor the empty text
Truthy(x) == x # None /\ x # <<>>

\* scans_by_badge.get(badge_id): the deque of the badge, None without one
ScansGet(scans_by_badge, badge_id) ==
    IF badge_id \in DOMAIN scans_by_badge THEN scans_by_badge[badge_id] ELSE None

\* scans_by_badge[badge_id].append(ts): the defaultdict makes the deque
ScansAppend(scans_by_badge, badge_id, ts) ==
    [b \in DOMAIN scans_by_badge \cup {badge_id} |->
        IF b = badge_id
        THEN Append(IF b \in DOMAIN scans_by_badge THEN scans_by_badge[b] ELSE <<>>, ts)
        ELSE scans_by_badge[b]]

\* q.pop() in place of q.popleft(): the newest scan is taken
PopRight(q) == [taken |-> q[Len(q)], rest |-> SubSeq(q, 1, Len(q) - 1)]

\* q.popleft(): the oldest scan is taken
PopLeft(q) == [taken |-> Head(q), rest |-> Tail(q)]

\* the body of the loop of _graph_badge_scan_latency, on
\* [scans_by_badge, pairs]
LatencyStep(c, event) ==
    LET ts == _event_ts(event)
        badge_id == event.badge_id
    IN IF ts = None THEN c
       ELSE IF /\ event.event_type = BadgeScan
               /\ _status_is(event, Granted)
               /\ Truthy(badge_id)
       THEN [c EXCEPT !.scans_by_badge = ScansAppend(@, badge_id, ts)]
       ELSE IF event.event_type = DoorOpen /\ Truthy(badge_id)
       THEN LET q == ScansGet(c.scans_by_badge, badge_id)
            IN IF q # None /\ Len(q) > 0
               THEN LET p == PopLeft(q)
                    IN [c EXCEPT
                          !.scans_by_badge[badge_id] = p.rest,
                          !.pairs = IF TextLeq(p.taken, ts)
                                    THEN Append(@, <<ts, total_seconds(ts, p.taken)>>)
                                    ELSE @]
               ELSE c
       ELSE c

\* labels and values of the graph: strftime of a datetime gives its text
\* back, round(x, 3) of a whole number of seconds is that number
LatencyGraph(pairs) ==
    [labels |-> [k \in 1..Len(pairs) |-> pairs[k][1]],
     values |-> [k \in 1..Len(pairs) |-> pairs[k][2]]]

\* the events given to the latency graph: scans and opens of two badges,
\* of no badge, granted in both spellings and denied, two seconds apart
LatencyTs == {<<2025, 12, 31, 9, 0, 0>>, <<2025, 12, 31, 9, 0, 2>>}
BadgeA == <<"a">>
BadgeB == <<"b">>
LatencyKinds ==
    {[event_type |-> BadgeScan, badge_id |-> BadgeA, status |-> Granted],
     [event_type |-> BadgeScan, badge_id |-> BadgeB, status |-> Granted],
     [event_type |-> BadgeScan, badge_id |-> BadgeA, status |-> GrantedLower],
     [event_type |-> BadgeScan, badge_id |-> BadgeA, status |-> Denied],
     [event_type |-> BadgeScan, badge_id |-> None, status |-> Granted],
     [event_type |-> DoorOpen, badge_id |-> BadgeA, status |-> Unknown],
     [event_type |-> DoorOpen, badge_id |-> BadgeB, status |-> Unknown],
     [event_type |-> DoorOpen, badge_id |-> None, status |-> Unknown]}

EventOfKind(ts, k) ==
    [ts |-> ts, event_type |-> k.event_type, badge_id |-> k.badge_id,
     status |-> k.status]

\* the sequences of at most n such events in ascending order of timestamp
RECURSIVE AscendingScans(_)
AscendingScans(n) ==
    IF n = 0 THEN {<<>>}
    ELSE LET S == AscendingScans(n - 1)
         IN S \cup {Append(sp[1], EventOfKind(sp[2], k)) :
                        sp \in {x \in S \X LatencyTs :
                                  /\ Len(x[1]) = n - 1
                                  /\ x[1] # <<>> =>
                                        TextLeq(x[1][n - 1].ts, x[2])},
                        k \in LatencyKinds}

InitLatency ==
    /\ shards = <<>>
    /\ dirs = {}
    /\ now = <<2025, 12>>
    /\ runs = 0
    /\ run = Idle
    /\ last = [op |-> "init"]
    /\ ret = NoRet
    /\ handles = {}
    /\ line = NoLine
    /\ parsed = NotParsed
    /\ ens = NoEns
    /\ dur = NoDur
    /\ \E events \in AscendingScans(MaxScans) :
          call = [fn |-> "_graph_badge_scan_latency", events |-> events,
                  i |-> 0, scans_by_badge |-> <<>>, pairs |-> <<>>,
                  returned |-> FALSE, graph |-> LatencyGraph(<<>>)]

\* one iteration of `for event in events`
LatencyIteration ==
    /\ call.i < Len(call.events)
    /\ \E c \in {LatencyStep([scans_by_badge |-> call.scans_by_badge,
                              pairs |-> call.pairs],
                             call.events[call.i + 1])} :
          call' = [call EXCEPT !.i = @ + 1,
                               !.scans_by_badge = c.scans_by_badge,
                               !.pairs = c.pairs]
    /\ UNCHANGED <<shards, dirs, now, runs, run, last, ret, handles, line,
                   parsed, ens, dur>>

\* the loop is over: the labels and values are returned
LatencyReturn ==
    /\ call.i = Len(call.events)
    /\ ~call.returned
    /\ call' = [call EXCEPT !.returned = TRUE,
                            !.graph = LatencyGraph(call.pairs)]
    /\ UNCHANGED <<shards, dirs, now, runs, run, last, ret, handles, line,
                   parsed, ens, dur>>

NextLatency == LatencyIteration \/ LatencyReturn

SpecLatency == InitLatency /\ [][NextLatency]_vars

----------------------------------------------------------------------------
(* The ranking of lib/server/routes_metrics.py: _graph_top_badge_users.    *)
(* Here a badge id is the sequence of the code points of its characters,   *)
(* so that Python's comparison of two str is LexLess.                      *)

\* "unknown"
UnknownLabel == <<117, 110, 107, 110, 111, 119, 110>>

\* None among such texts: a sequence that no text is
NoBadge == <<-1>>

\* event.get("badge_id") or "unknown"
BadgeOrUnknown(badge_id) ==
    IF badge_id # NoBadge /\ badge_id # <<>> THEN badge_id ELSE UnknownLabel

\* counts[badge_id] += 1 on the dict as the sequence of its items
\* <<badge_id, count>>, a new key going last
CountUp(counts, badge_id) ==
    IF \E k \in 1..Len(counts) : counts[k][1] = badge_id
    THEN [k \in 1..Len(counts) |->
            IF counts[k][1] = badge_id
            THEN <<badge_id, counts[k][2] + 1>> ELSE counts[k]]
    ELSE Append(counts, <<badge_id, 1>>)

\* the loop of _graph_top_badge_users
RECURSIVE TopCounts(_, _)
TopCounts(counts, events) ==
    IF events = <<>> THEN counts
    ELSE LET event == Head(events)
         IN TopCounts(
                IF event.event_type = BadgeScan /\ _status_is(event, Granted)
                THEN CountUp(counts, BadgeOrUnknown(event.badge_id))
                ELSE counts,
                Tail(events))

\* the key -item[1] alone: items of equal count compare equal
KeyLessByCount(x, y) == x[2] > y[2]

\* (-item[1], item[0]) of x is less than that of y
KeyLess(x, y) == x[2] > y[2] \/ (x[2] = y[2] /\ LexLess(x[1], y[1]))

\* sorted(items, key=...): stable, each item goes after the items whose key
\* is not greater than its own
RECURSIVE Sorted(_)
Sorted(items) ==
    IF items = <<>> THEN <<>>
    ELSE LET x == items[Len(items)]
             t == Sorted(SubSeq(items, 1, Len(items) - 1))
             k == Cardinality({i \in 1..Len(t) : ~KeyLess(x, t[i])})
         IN InsertAt(t, x, k + 1)

\* the length of the slice [:10]
TOP_N == 10

\* ordered[:10]
Top10(ordered) == SubSeq(ordered, 1, IF Len(ordered) < TOP_N THEN Len(ordered) ELSE TOP_N)

_graph_top_badge_users(events) ==
    LET ordered == Top10(Sorted(TopCounts(<<>>, events)))
    IN [labels |-> [k \in 1..Len(ordered) |-> ordered[k][1]],
        values |-> [k \in 1..Len(ordered) |-> ordered[k][2]]]

\* the decimal text of a badge number below 100 ("9", "10")
BadgeText(i) ==
    IF i < 10 THEN <<48 + i>> ELSE <<48 + (i \div 10), 48 + (i % 10)>>

GrantedScan(badge_id) ==
    [ts |-> TDec, event_type |-> BadgeScan, badge_id |-> badge_id,
     status |-> Granted]

\* one granted scan of each of the badges 1..n, in rising or falling order
OneScanEach(n, rising) ==
    [k \in 1..n |-> GrantedScan(BadgeText(IF rising THEN k ELSE n + 1 - k))]

\* further events: more scans of two badges, a scan of no badge, one spelled
\* "granted", a denied scan and an event of another type
TopKinds ==
    {GrantedScan(BadgeText(2)), GrantedScan(BadgeText(9)), GrantedScan(NoBadge),
     [GrantedScan(BadgeText(3)) EXCEPT !.status = GrantedLower],
     [GrantedScan(BadgeText(1)) EXCEPT !.status = Denied],
     [GrantedScan(BadgeText(1)) EXCEPT !.event_type = DoorOpen]}

RECURSIVE TopExtras(_)
TopExtras(n) ==
    IF n = 0 THEN {<<>>}
    ELSE LET S == TopExtras(n - 1) IN S \cup {Append(x, k) : x \in S, k \in TopKinds}

InitTop ==
    /\ shards = <<>>
    /\ dirs = {}
    /\ now = <<2025, 12>>
    /\ runs = 0
    /\ run = Idle
    /\ last = [op |-> "init"]
    /\ ret = NoRet
    /\ handles = {}
    /\ line = NoLine
    /\ parsed = NotParsed
    /\ ens = NoEns
    /\ dur = NoDur
    /\ \E n \in 0..MaxBadges, rising \in BOOLEAN, extra \in TopExtras(MaxExtras),
          first \in BOOLEAN :
          call = [fn |-> "_graph_top_badge_users",
                  events |-> IF first THEN extra \o OneScanEach(n, rising)
                             ELSE OneScanEach(n, rising) \o extra,
                  returned |-> FALSE,
                  graph |-> [labels |-> <<>>, values |-> <<>>]]

TopCall ==
    /\ call.fn = "_graph_top_badge_users"
    /\ ~call.returned
    /\ call' = [call EXCEPT !.returned = TRUE,
                            !.graph = _graph_top_badge_users(call.events)]
    /\ UNCHANGED <<shards, dirs, now, runs, run, last, ret, handles, line,
                   parsed, ens, dur>>

NextTop == TopCall

SpecTop == InitTop /\ [][NextTop]_vars

----------------------------------------------------------------------------
(* The timeline of lib/server/routes_metrics.py: _parse_int and _timeline. *)
(* A query value is [kind |-> "int", n |-> the number its text writes], or *)
(* [kind |-> "text"] for a text int() rejects, or [kind |-> "absent"].     *)

IntValue(n) == [kind |-> "int", n |-> n]
TextValue == [kind |-> "text", n |-> 0]
AbsentValue == [kind |-> "absent", n |-> 0]

\* the default maximum of _parse_int
PARSE_INT_MAXIMUM == 500

\* the default page size of _timeline
DEFAULT_PAGE_SIZE == 50

\* _parse_int(value, default_value, minimum, maximum)
_parse_int(value, default_value, minimum, maximum) ==
    IF value.kind # "int" THEN default_value
    ELSE IF value.n < minimum THEN minimum
    ELSE IF value.n > maximum THEN maximum
    ELSE value.n

\* query.get(name, [default])[0]
QueryGet(value, default) == IF value.kind = "absent" THEN IntValue(default) ELSE value

\* int(math.ceil(total / float(page_size)))
CeilDiv(total, page_size) == (total + page_size - 1) \div page_size

\* events[start_idx:end_idx]
Slice(events, start_idx, end_idx) ==
    SubSeq(events, start_idx + 1, IF end_idx < Len(events) THEN end_idx ELSE Len(events))

\* page = _parse_int(query.get("page", ["1"])[0], 1); min(page, total_pages)
page_of(page, total_pages) ==
    LET parsed_page == _parse_int(QueryGet(page, 1), 1, 1, PARSE_INT_MAXIMUM)
    IN IF parsed_page < total_pages THEN parsed_page ELSE total_pages

\* page_size = _parse_int(query.get("page_size", ["50"])[0], 50, 1, 500)
page_size_of(page_size) ==
    _parse_int(QueryGet(page_size, DEFAULT_PAGE_SIZE), DEFAULT_PAGE_SIZE, 1,
               PARSE_INT_MAXIMUM)

\* _timeline(events, query), query holding page and page_size
_timeline(events, page, page_size) ==
    LET size == page_size_of(page_size)
        total == Len(events)
        total_pages == IF total # 0
                       THEN (IF CeilDiv(total, size) > 1 THEN CeilDiv(total, size) ELSE 1)
                       ELSE 1
        pg == page_of(page, total_pages)
        start_idx == (pg - 1) * size
        end_idx == start_idx + size
    IN [page |-> pg, page_size |-> size, total |-> total,
        total_pages |-> total_pages, items |-> Slice(events, start_idx, end_idx)]

\* the events of a timeline: only their positions matter
TimelineEvents(total) == [k \in 1..total |-> k]

\* the lengths of the event sequences: short ones, and ones that fill more
\* than PARSE_INT_MAXIMUM pages of one or two events
TimelineTotals ==
    (0..MaxItems) \cup {PARSE_INT_MAXIMUM, PARSE_INT_MAXIMUM + 1,
                        2 * PARSE_INT_MAXIMUM + 1}

\* the page sizes asked for, and the pages
PageSizeValues ==
    {AbsentValue, TextValue} \cup
    {IntValue(n) : n \in {-1, 0, 1, 2, 3, PARSE_INT_MAXIMUM, PARSE_INT_MAXIMUM + 1}}
PageValues ==
    {AbsentValue, TextValue} \cup
    {IntValue(n) : n \in (-1..(MaxItems + 1))
                     \cup {99, PARSE_INT_MAXIMUM, PARSE_INT_MAXIMUM + 1,
                           PARSE_INT_MAXIMUM + 100}}

NoTimeline == [page |-> 0, page_size |-> 0, total |-> 0, total_pages |-> 0,
               items |-> <<>>]

\* a sequence of events and the page size of a client that reads the
\* timeline page after page
InitTimeline ==
    /\ shards = <<>>
    /\ dirs = {}
    /\ now = <<2025, 12>>
    /\ runs = 0
    /\ run = Idle
    /\ last = [op |-> "init"]
    /\ ret = NoRet
    /\ handles = {}
    /\ line = NoLine
    /\ parsed = NotParsed
    /\ ens = NoEns
    /\ dur = NoDur
    /\ \E total \in TimelineTotals, size \in {1, 2, 3, PARSE_INT_MAXIMUM} :
          call = [fn |-> "_timeline", events |-> TimelineEvents(total),
                  size |-> size, asked |-> [page |-> AbsentValue,
                                            page_size |-> AbsentValue],
                  walking |-> FALSE, next |-> 1, seen |-> <<>>,
                  returned |-> FALSE, result |-> NoTimeline]

\* one request for the timeline, with any page and any page size
TimelineRequest(page, page_size) ==
    /\ call.fn = "_timeline"
    /\ ~call.returned
    /\ call' = [call EXCEPT !.returned = TRUE,
                            !.asked = [page |-> page, page_size |-> page_size],
                            !.result = _timeline(call.events, page, page_size)]
    /\ UNCHANGED <<shards, dirs, now, runs, run, last, ret, handles, line,
                   parsed, ens, dur>>

\* the client asks for the next page, as long as the last answer says there
\* is one
TimelineNextPage ==
    /\ call.fn = "_timeline"
    /\ ~call.returned \/ call.walking
    /\ call.walking => call.next <= call.result.total_pages
    /\ \E t \in {_timeline(call.events, IntValue(call.next), IntValue(call.size))} :
          call' = [call EXCEPT !.returned = TRUE, !.walking = TRUE,
                               !.asked = [page |-> IntValue(call.next),
                                          page_size |-> IntValue(call.size)],
                               !.result = t,
                               !.next = @ + 1,
                               !.seen = @ \o t.items]
    /\ UNCHANGED <<shards, dirs, now, runs, run, last, ret, handles, line,
                   parsed, ens, dur>>

NextTimeline ==
    \/ \E page \in PageValues, page_size \in PageSizeValues :
          TimelineRequest(page, page_size)
    \/ TimelineNextPage

SpecTimeline == InitTimeline /\ [][NextTimeline]_vars

----------------------------------------------------------------------------
(* The doors left open of lib/server/routes_metrics.py:                    *)
(* _graph_door_left_open over the samples of _door_open_durations.  The    *)
(* configured DOOR_UNLOCK_BADGE_DURATION is a whole number of seconds, on  *)
(* which int() changes nothing.                                            *)

\* the least threshold
MIN_THRESHOLD == 30

\* max(30, int(config.get("DOOR_UNLOCK_BADGE_DURATION", 5)) * 2)
threshold_of(c) == IF c * 2 > MIN_THRESHOLD THEN c * 2 ELSE MIN_THRESHOLD

\* value >= threshold in place of value > threshold
OverThresholdOrEqual(value, threshold) == value >= threshold

\* `if value > threshold`
OverThreshold(value, threshold) == value > threshold

\* over[ts.date().isoformat()] += 1 for the samples over the threshold: the
\* days with a count, as a function
OverCounts(durations, threshold) ==
    LET over == {k \in 1..Len(durations) : OverThreshold(durations[k][2], threshold)}
    IN [day \in {DateOf(durations[k][1]) : k \in over} |->
          Cardinality({k \in over : DateOf(durations[k][1]) = day})]

\* sorted(over.keys()): the iso texts of dates compare as the dates do
RECURSIVE SortedDays(_)
SortedDays(days) ==
    IF days = {} THEN <<>>
    ELSE LET first == CHOOSE d \in days : \A e \in days : ~DateLess(e, d)
         IN <<first>> \o SortedDays(days \ {first})

_graph_door_left_open(events, c) ==
    LET threshold == threshold_of(c)
        over == OverCounts(_door_open_durations(events), threshold)
        labels == SortedDays(DOMAIN over)
    IN [labels |-> labels,
        values |-> [k \in 1..Len(labels) |-> over[labels[k]]],
        threshold_seconds |-> threshold]

\* the timestamps of the events: 30, 31, 40 and 41 seconds after the first,
\* the last two on the next day
LeftOpenTs ==
    {<<2025, 12, 31, 23, 59, 20>>, <<2025, 12, 31, 23, 59, 50>>,
     <<2025, 12, 31, 23, 59, 51>>, <<2026, 1, 1, 0, 0, 0>>,
     <<2026, 1, 1, 0, 0, 1>>}

\* the configured unlock durations: thresholds 30, 30, 30, 32 and 40
UnlockDurations == {-1, 5, 15, 16, 20}

RECURSIVE AscendingOpenClose(_)
AscendingOpenClose(n) ==
    IF n = 0 THEN {<<>>}
    ELSE LET S == AscendingOpenClose(n - 1)
         IN S \cup {Append(sp[1], [ts |-> sp[2], event_type |-> e]) :
                        sp \in {x \in S \X LeftOpenTs :
                                  /\ Len(x[1]) = n - 1
                                  /\ x[1] # <<>> =>
                                        TextLeq(x[1][n - 1].ts, x[2])},
                        e \in {DoorOpen, DoorClosed}}

InitLeftOpen ==
    /\ shards = <<>>
    /\ dirs = {}
    /\ now = <<2025, 12>>
    /\ runs = 0
    /\ run = Idle
    /\ last = [op |-> "init"]
    /\ ret = NoRet
    /\ handles = {}
    /\ line = NoLine
    /\ parsed = NotParsed
    /\ ens = NoEns
    /\ dur = NoDur
    /\ \E events \in AscendingOpenClose(MaxEvents), c \in UnlockDurations :
          call = [fn |-> "_graph_door_left_open", events |-> events, c |-> c,
                  returned |-> FALSE,
                  graph |-> [labels |-> <<>>, values |-> <<>>,
                             threshold_seconds |-> 0]]

LeftOpenCall ==
    /\ call.fn = "_graph_door_left_open"
    /\ ~call.returned
    /\ call' = [call EXCEPT !.returned = TRUE,
                            !.graph = _graph_door_left_open(call.events, call.c)]
    /\ UNCHANGED <<shards, dirs, now, runs, run, last, ret, handles, line,
                   parsed, ens, dur>>

NextLeftOpen == LeftOpenCall

SpecLeftOpen == InitLeftOpen /\ [][NextLeftOpen]_vars

----------------------------------------------------------------------------
(* The parser on its own *)

InitParse ==
    /\ shards = <<>>
    /\ dirs = {}
    /\ now = <<2025, 12>>
    /\ runs = 0
    /\ run = Idle
    /\ last = [op |-> "init"]
    /\ ret = NoRet
    /\ handles = {}
    /\ line \in ParseLines
    /\ parsed = NotParsed
    /\ ens = NoEns
    /\ dur = NoDur
    /\ call = NoCall

Parse ==
    /\ parsed = NotParsed
    /\ parsed' = parse_action_log_line(line)
    /\ UNCHANGED <<shards, dirs, now, runs, run, last, ret, handles, line, ens, dur,
                   call>>

NextParse == Parse

SpecParse == InitParse /\ [][NextParse]_vars

----------------------------------------------------------------------------
(* Vocabulary of the properties *)

Range(s) == {s[i] : i \in DOMAIN s}

\* the multiset of the elements of a sequence
SeqBag(s) == [x \in Range(s) |-> Cardinality({i \in DOMAIN s : s[i] = x})]

\* the position of a timestamp on the time line (order of the instants, on a
\* scale that gives every month 31 days)
Instant(ts) ==
    (((((ts[1] - 2000) * 12 + (ts[2] - 1)) * 31 + (ts[3] - 1)) * 24 + ts[4]) * 60
        + ts[5]) * 60 + ts[6]

\* the second after ts
PlusOneSecond(ts) ==
    IF ts[6] < 59 THEN [ts EXCEPT ![6] = @ + 1]
    ELSE IF ts[5] < 59 THEN [ts EXCEPT ![5] = @ + 1, ![6] = 0]
    ELSE IF ts[4] < 23 THEN [ts EXCEPT ![4] = @ + 1, ![5] = 0, ![6] = 0]
    ELSE IF ts[3] < DaysInMonth(ts[1], ts[2])
         THEN <<ts[1], ts[2], ts[3] + 1, 0, 0, 0>>
    ELSE IF ts[2] < 12 THEN <<ts[1], ts[2] + 1, 1, 0, 0, 0>>
    ELSE <<ts[1] + 1, 1, 1, 0, 0, 0>>

\* the YYYY-MM prefix of a timestamp text
MonthPrefix(ts) == <<ts[1], ts[2]>>

\* the month key a db path names
KeyOfPath(db_path) == db_path[2]

\* no shard holds more rows: the event of the earlier ingestion and the
\* lines of the runs, or the lines of the ingestions of one file
MaxRows == MaxLines * (MaxRuns + MaxRepeats) + 1

\* the places <<db path, row number>> of all stored events
Places == {pl \in (DOMAIN shards) \X (1..MaxRows) :
             pl[2] <= Len(shards[pl[1]].rows)}
RowAt(pl) == shards[pl[1]].rows[pl[2]]

\* the multiset of the stored events, over all shards, that a single table
\* would return for start <= ts <= end and the event type filter
Unsharded(start_ts, end_ts, event_types) ==
    LET hits == {pl \in Places :
                    /\ Instant(start_ts) <= Instant(RowAt(pl).ts)
                    /\ Instant(RowAt(pl).ts) <= Instant(end_ts)
                    /\ (event_types # {} => RowAt(pl).event_type \in event_types)}
    IN [e \in {_event_row(RowAt(pl)) : pl \in hits} |->
            Cardinality({pl \in hits : _event_row(RowAt(pl)) = e})]

\* the records parse_action_log_line accepts for the lines of a file
RECURSIVE Accepted(_)
Accepted(file) ==
    IF file = <<>> THEN <<>>
    ELSE (IF parse_action_log_line(Head(file)).tag = "rec"
          THEN <<EventOf(parse_action_log_line(Head(file)))>> ELSE <<>>)
         \o Accepted(Tail(file))

\* a well-formed line: of the line shape, with its markers, on a real date
WellFormed(l) ==
    /\ parse_action_log_line(l).tag = "rec"
    /\ StrptimeOk(l.ts)

RangeRows(start_ts, end_ts, event_types) ==
    query_events_range(Store, now, start_ts, end_ts, event_types).rows

RangeTag(start_ts, end_ts, event_types) ==
    query_events_range(Store, now, start_ts, end_ts, event_types).tag

\* the seconds a range is split at
SplitSeconds == QueryTs \cup {TJan} \cup {NthMonthTs(i) : i \in 1..MaxMonths}

IngestEnded == last.op = "ingest" /\ last.exists
RangeEnded == last.op = "range"

\* the rows of the db at a path in a map of shards; none when it is absent
RowsOf(sh, db_path) == IF db_path \in DOMAIN sh THEN sh[db_path].rows ELSE <<>>

\* the number of rows of all the shards of a map
RowCount(sh) ==
    Cardinality({pl \in (DOMAIN sh) \X (1..MaxRows) :
                    pl[2] <= Len(sh[pl[1]].rows)})

IsPrefix(s, t) == Len(s) <= Len(t) /\ SubSeq(t, 1, Len(s)) = s

\* a step that ends the ingestion run, and one that ends it by returning
RunEnds == run.pc # "idle" /\ run'.pc = "idle"
RunReturns == RunEnds /\ ret'.tag = "ok"

\* the inserts of the run into the db at a path
PendingOf(r, db_path) ==
    IF db_path \in DOMAIN r.pending THEN r.pending[db_path] ELSE <<>>

\* the month keys from the month of start_ts to the month of end_ts
MonthsCovered(start_ts, end_ts) ==
    {k \in MonthKeys \cup NowKeys \cup {NthMonth(i) : i \in 1..MaxMonths}
               \cup {MonthPrefix(TLast)} :
        /\ ~LexLess(k, MonthPrefix(start_ts))
        /\ ~LexLess(MonthPrefix(end_ts), k)}

Writers == {h \in handles : h.kind = "writer"}

----------------------------------------------------------------------------
(* Properties of the store *)

\* C1 (as claimed): after ingesting a file into empty shards, the query over
\* a range covering every timestamp of the file returns exactly the
\* multiset of the records the parser accepts for the file's lines.
C1_RoundTrip ==
    (IngestEnded /\ last.fresh /\ ~last.interrupted) =>
        SeqBag(RangeRows(TNov, TJan1, {})) = SeqBag(Accepted(last.file))

\* The round trip of the files whose ingestion returns.
RoundTripOfReturnedRuns ==
    (IngestEnded /\ last.fresh /\ ret.tag = "ok") =>
        SeqBag(RangeRows(TNov, TJan1, {})) = SeqBag(Accepted(last.file))

\* C2: a range query with start <= end returns exactly the multiset of the
\* stored events of all shards with start <= ts <= end (both inclusive) and,
\* under a filter, an event type of the filter: what one unsharded table
\* would return.
C2_FanOutEqualsUnsharded ==
    (RangeEnded /\ TextLeq(last.start_ts, last.end_ts)) =>
        /\ ret.tag = "ok"
        /\ SeqBag(ret.value) =
              Unsharded(last.start_ts, last.end_ts, last.event_types)

C2_Witness ==
    /\ RangeEnded
    /\ last.event_types # {}
    /\ Len(ret.value) = 1
    /\ Cardinality({pl \in Places : MonthPrefix(RowAt(pl).ts) # MonthPrefix(ret.value[1].ts)}) = 1
    /\ MonthPrefix(last.start_ts) # MonthPrefix(last.end_ts)

\* C3: the sequence a range query or a month query returns is
\* non-decreasing in timestamp over the whole result.
C3_GlobalOrdering ==
    (last.op \in {"range", "month"} /\ ret.tag = "ok") =>
        \A i \in 1..Len(ret.value), j \in 1..Len(ret.value) :
            i < j => Instant(ret.value[i].ts) <= Instant(ret.value[j].ts)

\* a result of two events whose shard stores them in the opposite order
C3_Witness ==
    /\ RangeEnded
    /\ Len(ret.value) = 2
    /\ Instant(ret.value[1].ts) < Instant(ret.value[2].ts)
    /\ \E db_path \in DOMAIN shards :
          /\ Len(shards[db_path].rows) = 2
          /\ Instant(shards[db_path].rows[2].ts) < Instant(shards[db_path].rows[1].ts)

\* C4: for a range [a,b] and every split second s with a <= s < b, the
\* result of the query over [a,b] is the multiset union of the results over
\* [a,s] and [s + 1 second, b].
C4_SplitConsistency ==
    RangeEnded =>
        \A s \in SplitSeconds :
            (TextLeq(last.start_ts, s) /\ LexLess(s, last.end_ts)) =>
                /\ ret.tag = "ok"
                /\ RangeTag(last.start_ts, s, last.event_types) = "ok"
                /\ RangeTag(PlusOneSecond(s), last.end_ts, last.event_types) = "ok"
                /\ SeqBag(ret.value) =
                      SeqBag(RangeRows(last.start_ts, s, last.event_types))
                      (+) SeqBag(RangeRows(PlusOneSecond(s), last.end_ts,
                                           last.event_types))

\* a range over the year boundary with an event in the last second of the
\* year and one in the first second of the next
C4_Witness ==
    /\ RangeEnded
    /\ last.start_ts = TDec
    /\ last.end_ts = TJan1
    /\ Len(ret.value) = 2
    /\ ret.value[1].ts = TDec
    /\ ret.value[2].ts = PlusOneSecond(TDec)

C6_MalformedNeverAborts ==
    (IngestEnded /\ ~last.interrupted) =>
        /\ ret.tag = "ok"
        /\ \A i \in 1..Len(last.file) :
              WellFormed(last.file[i]) =>
                  \E pl \in Places :
                      _event_row(RowAt(pl)) =
                          EventOf(parse_action_log_line(last.file[i]))

\* C10: ingesting a path that does not exist returns 0 and leaves the store
\* as it was: no shard, no directory, no event added; every time.
C10_MissingFileNoOp ==
    [][(last'.op = "ingest" /\ ~last'.exists) =>
          /\ ret' = [tag |-> "ok", value |-> 0]
          /\ shards' = shards
          /\ dirs' = dirs]_vars

C10_Witness ==
    /\ last.op = "ingest"
    /\ ~last.exists
    /\ ret.value = 0
    /\ Places # {}

----------------------------------------------------------------------------
(* Properties of the ingestion run *)

\* C11: when ingest_action_log_file returns, the number it returns is the
\* number of lines of the file that parse_action_log_line accepts, it is
\* the number of rows the run added over all shards, and it is at most the
\* number of lines.
C11_InsertCount ==
    [][RunReturns =>
          /\ ret'.value = Len(Accepted(run.file))
          /\ ret'.value = RowCount(shards') - RowCount(run.before)
          /\ ret'.value <= Len(run.file)]_vars

\* a run over a store that holds events, of a file with a rejected line
C11_Witness ==
    /\ IngestEnded
    /\ ret.tag = "ok"
    /\ ~last.fresh
    /\ Len(last.file) = 2
    /\ ret.value = 1

\* C12: during an ingestion run at most one writer connection is open per
\* shard; no row is committed while lines are still being read; a run that
\* returns has committed every shard it touched exactly once (and no shard
\* is ever committed twice); when the run has ended, by a return or by an
\* exception, no writer connection is open.
C12_WriterAndCommitDiscipline ==
    /\ [](/\ \A h \in Writers, g \in Writers : h.path = g.path => h = g
          /\ run.pc = "idle" => Writers = {}
          /\ run.pc # "idle" =>
                \A db_path \in DOMAIN run.commits : run.commits[db_path] = 1)
    /\ [][/\ run.pc = "read" =>
               \A db_path \in DOMAIN shards' :
                   RowsOf(shards', db_path) = RowsOf(shards, db_path)
          /\ RunReturns =>
               \A db_path \in DOMAIN run.pending :
                   /\ db_path \in DOMAIN run.commits
                   /\ run.commits[db_path] = 1
          /\ RunEnds => {h \in handles' : h.kind = "writer"} = {}]_vars

\* two shards touched, one of them committed, both connections open
C12_Witness ==
    /\ run.pc = "commit"
    /\ Cardinality(Writers) = 2
    /\ Len(run.order) = 1
    /\ DOMAIN run.commits # {}

\* C13: when an ingestion run ends, in whatever way and at whatever point,
\* every shard holds the rows it held when the run began followed by
\* either all the rows the run inserted into it or none of them.
C13_PerShardAtomicity ==
    [][RunEnds =>
          \A db_path \in DOMAIN shards' :
              LET was == RowsOf(run.before, db_path)
                  mine == PendingOf(run, db_path)
                  got == shards'[db_path].rows
              IN \/ got = was
                 \/ /\ Len(got) = Len(was) + Len(mine)
                    /\ IsPrefix(was, got)
                    /\ \A k \in 1..Len(mine) :
                          _event_row(got[Len(was) + k]) = mine[k]]_vars

\* a run over two shards interrupted between their commits
C13_Witness ==
    /\ IngestEnded
    /\ last.interrupted
    /\ last.fresh
    /\ Len(Accepted(last.file)) = 2
    /\ Cardinality(Places) = 1

----------------------------------------------------------------------------
(* Properties of the shards under queries *)

\* C14: the shards that exist after a range query are those that existed
\* before, plus at most the shard of the current month, and that only if
\* the current month is a month of the range; a month of the range that is
\* not the current one and had no shard has none afterwards and gives no
\* row.
C14_ShardCreationOnRead ==
    RangeEnded =>
        LET created == DOMAIN shards \ last.existed
            months == MonthsCovered(last.start_ts, last.end_ts)
        IN /\ last.existed \subseteq DOMAIN shards
           /\ created \subseteq {get_month_db_path(now)}
           /\ created # {} => now \in months
           /\ \A k \in months :
                 (k # now /\ get_month_db_path(k) \notin last.existed) =>
                     /\ get_month_db_path(k) \notin DOMAIN shards
                     /\ \A i \in 1..Len(ret.value) :
                           MonthPrefix(ret.value[i].ts) # k

\* a query that created the current month's shard and met an absent month
C14_Witness ==
    /\ RangeEnded
    /\ get_month_db_path(now) \in DOMAIN shards \ last.existed
    /\ \E k \in MonthsCovered(last.start_ts, last.end_ts) :
          get_month_db_path(k) \notin DOMAIN shards
    /\ Len(ret.value) = 1

\* C15: a range query whose months have no shard, none of them being the
\* current month, returns the empty sequence, raises nothing and creates
\* nothing; so does the month query of a month without shard.
C15_EmptyCoverage ==
    /\ (/\ RangeEnded
        /\ \A k \in MonthsCovered(last.start_ts, last.end_ts) :
              k # now /\ get_month_db_path(k) \notin last.existed) =>
            /\ ret = [tag |-> "ok", value |-> <<>>]
            /\ DOMAIN shards = last.existed
    /\ (/\ last.op = "month"
        /\ get_month_db_path(last.month_key) \notin last.existed) =>
            /\ ret = [tag |-> "ok", value |-> <<>>]
            /\ DOMAIN shards = last.existed

\* a range over a month without shard, while another month holds events
C15_Witness ==
    /\ RangeEnded
    /\ MonthsCovered(last.start_ts, last.end_ts) # {}
    /\ \A k \in MonthsCovered(last.start_ts, last.end_ts) :
          k # now /\ get_month_db_path(k) \notin last.existed
    /\ Places # {}

\* C17: after a range query, a month query or an export has returned or
\* raised, none of the connections it opened (its own, the dbs attached to
\* it) is open.
C17_ReadHandlesReleased ==
    last.op \in {"range", "month", "export"} => handles = {}

\* a range query that raised at the ATTACH of its eleventh shard
C17_Witness ==
    /\ RangeEnded
    /\ ret.tag = "raise"
    /\ Cardinality(DOMAIN shards) > SQLITE_MAX_ATTACHED

C19_ImmutableEvents ==
    [][/\ \A db_path \in DOMAIN shards :
             /\ db_path \in DOMAIN shards'
             /\ IsPrefix(shards[db_path].rows, shards'[db_path].rows)
       /\ last'.op \in {"range", "month", "export"} =>
             \A db_path \in DOMAIN shards' :
                 RowsOf(shards', db_path) = RowsOf(shards, db_path)]_vars

\* a commit into a shard that held an event of an earlier run
C19_Witness ==
    /\ run.pc = "commit"
    /\ \E db_path \in DOMAIN run.commits :
          /\ Len(RowsOf(run.before, db_path)) = 1
          /\ Len(shards[db_path].rows) = 2

----------------------------------------------------------------------------
(* Properties of ensure_month_db *)

\* C16: whatever the interleaving of the steps of the callers of
\* ensure_month_db, every call that has returned returned the path of its
\* month key, without error, the db at that path existing with its table
\* and its three indexes in an existing directory; and every db holds the
\* events it held at the start, a created one none.
C16_EnsureIdempotent ==
    /\ \A p \in DOMAIN ens.procs :
          ens.procs[p].pc = "returned" =>
              LET db_path == get_month_db_path(ens.procs[p].month_key)
              IN /\ ens.procs[p].ret = [tag |-> "ok", value |-> db_path]
                 /\ db_path \in DOMAIN ens.files
                 /\ ens.files[db_path].table
                 /\ ens.files[db_path].indexes = IndexNumbers
                 /\ DirName(db_path) \in ens.dirs
    /\ \A db_path \in DOMAIN ens.files :
          ens.files[db_path].rows =
              IF db_path \in DOMAIN ens.stored
              THEN ens.stored[db_path].rows ELSE <<>>
    /\ DOMAIN ens.stored \subseteq DOMAIN ens.files

\* two callers inside ensure_month_db for the same month at once, between
\* their CREATE INDEX statements, on a db that did not exist, while the db
\* of another month holds an event
C16_Witness ==
    \E p \in DOMAIN ens.procs, q \in DOMAIN ens.procs :
        /\ p # q
        /\ ens.procs[p].pc = "index"
        /\ ens.procs[q].pc = "index"
        /\ ens.procs[p].db_path = ens.procs[q].db_path
        /\ ens.procs[p].db_path \notin DOMAIN ens.stored
        /\ ens.procs[p].i = 2
        /\ ens.procs[q].i = 3
        /\ ens.stored # <<>>

----------------------------------------------------------------------------
(* Properties of the duration pairing *)

\* the positions, among the first n events, of the events of a type
PositionsOf(events, n, event_type) ==
    {k \in 1..n : events[k].event_type = event_type}

\* the opens between the close at position c and the close before it
OpensSincePreviousClose(events, c) ==
    LET previous == SetMax(PositionsOf(events, c - 1, DoorClosed) \cup {0})
    IN {o \in PositionsOf(events, c - 1, DoorOpen) : previous < o}

\* the closes, among the first n events, that have such an open
PairedCloses(events, n) ==
    {c \in PositionsOf(events, n, DoorClosed) :
        OpensSincePreviousClose(events, c) # {}}

\* the open a paired close pairs with: the latest one
OpenOf(events, c) == SetMax(OpensSincePreviousClose(events, c))

RECURSIVE Ascending(_)
Ascending(S) ==
    IF S = {} THEN <<>> ELSE <<SetMin(S)>> \o Ascending(S \ {SetMin(S)})

\* the samples of the pairs among the first n events, in the order of the
\* closes: the time of the open and the seconds from the open to the close
SamplesOfPairs(events, n) ==
    LET closes == Ascending(PairedCloses(events, n))
    IN [k \in 1..Len(closes) |->
          <<events[OpenOf(events, closes[k])].ts,
            SecondsOf(events[closes[k]].ts)
                - SecondsOf(events[OpenOf(events, closes[k])].ts)>>]

\* the pending open after the first n events: the latest open after the
\* last close, if there is one
PendingOpen(events, n) ==
    LET after == {o \in PositionsOf(events, n, DoorOpen) :
                     SetMax(PositionsOf(events, n, DoorClosed) \cup {0}) < o}
    IN IF after = {} THEN None ELSE events[SetMax(after)].ts

\* the durations of the pairs whose open is on a day, in the order of the
\* closes
DurationsOfDay(events, n, day) ==
    LET closes == Ascending({c \in PairedCloses(events, n) :
                               DateOf(events[OpenOf(events, c)].ts) = day})
    IN [k \in 1..Len(closes) |->
          SecondsOf(events[closes[k]].ts)
              - SecondsOf(events[OpenOf(events, closes[k])].ts)]

\* C20: after any number of events of a sequence in ascending order of
\* timestamp, the samples emitted are those of the closes that have an
\* open since the previous close, each paired with the latest such open
\* (its time, and the seconds from it to the close), in the order of the
\* closes; the pending slot holds the latest open since the last close;
\* no open and no close is in two pairs; every duration is >= 0; and the
\* buckets hold every sample under the day of its open.
C20_DurationPairing ==
    LET events == dur.events
        n == dur.i
        closes == PairedCloses(events, n)
    IN /\ dur.durations = SamplesOfPairs(events, n)
       /\ dur.open_ts = PendingOpen(events, n)
       /\ \A c \in closes, d \in closes :
             c # d => OpenOf(events, c) # OpenOf(events, d)
       /\ \A k \in 1..Len(dur.durations) : dur.durations[k][2] >= 0
       /\ dur.bucket # <<>> =>
             /\ DOMAIN dur.bucket =
                   {DateOf(events[OpenOf(events, c)].ts) : c \in closes}
             /\ \A day \in DOMAIN dur.bucket :
                   dur.bucket[day] = DurationsOfDay(events, n, day)

\* open, open, close, close: one sample, of the second open; and a pair
\* five minutes apart; and a pair across midnight, under the open's day
C20_Witness ==
    /\ dur.i = 4
    /\ dur.bucket # <<>>
    /\ \/ /\ [k \in 1..4 |-> dur.events[k].event_type] =
                 <<DoorOpen, DoorOpen, DoorClosed, DoorClosed>>
          /\ dur.events[1].ts # dur.events[2].ts
          /\ Len(dur.durations) = 1
          /\ dur.durations[1][1] = dur.events[2].ts
       \/ /\ dur.durations =
                 << <<(<<2025, 12, 31, 10, 0, 0>>), 300>>,
                    <<(<<2025, 12, 31, 23, 59, 59>>), 2>> >>
          /\ DOMAIN dur.bucket = {<<2025, 12, 31>>}

----------------------------------------------------------------------------
(* Properties of the parser *)

Parsed == parsed # NotParsed

\* the message of a line of the line shape: the group the pattern captures
\* from the trimmed line
MessageOf(l) == RStrip(l.msg)
HasShape(l) == l.head = "ok" /\ MessageOf(l) # <<>>

BadgeAt(m) == Occurrences(m, _BADGE_PART)
StatusAt(m) == Occurrences(m, _STATUS_PART)

Before(m, i) == SubSeq(m, 1, i - 1)
Between(m, i, j) == SubSeq(m, i + Len(_BADGE_PART), j - 1)
After(m, j) == SubSeq(m, j + Len(_STATUS_PART), Len(m))

\* a badge marker followed by a status marker: some status marker starts
\* at or after the end of the first badge marker
BadgeThenStatus(m) ==
    /\ BadgeAt(m) # {}
    /\ \E j \in StatusAt(m) : j >= SetMin(BadgeAt(m)) + Len(_BADGE_PART)

OnlyStatus(m) == BadgeAt(m) = {} /\ StatusAt(m) # {}
NoMarker(m) == BadgeAt(m) = {} /\ StatusAt(m) = {}

Absent(x) == IF x = <<>> THEN None ELSE x

\* what the decoding rules give for event type et, badge id b, status st
Decoded(l, et, b, st) ==
    IF et = <<>> THEN Reject
    ELSE [tag |-> "rec", event_type |-> et, badge_id |-> b, status |-> st,
          ts |-> l.ts, raw_message |-> StripLine(l)]

\* C7 (as claimed): parse_action_log_line returns a record or the reject
\* value for every line and never raises.
C7_ParserTotal == Parsed => parsed.tag \in {"rec", "none"}

\* C8: for a line of the line shape, (1) with a badge marker followed by a
\* status marker the record has the trimmed text before the badge marker as
\* event type, the trimmed text between the markers as badge id (absent
\* when empty) and the trimmed text after the status marker as status;
\* (2) with only a status marker the event type is the trimmed text before
\* it and the badge id is absent; (3) with neither marker, or with an empty
\* event type, the line is rejected.  An accepted record carries the line's
\* timestamp and the whole trimmed line.
C8_MessageDecoding ==
    (Parsed /\ HasShape(line)) =>
        LET m == MessageOf(line)
            i == SetMin(BadgeAt(m))
            j == SetMax(StatusAt(m))
        IN /\ BadgeThenStatus(m) =>
                parsed = Decoded(line, Strip(Before(m, i)),
                                 Absent(Strip(Between(m, i, j))),
                                 Strip(After(m, j)))
           /\ OnlyStatus(m) =>
                parsed = Decoded(line, Strip(Before(m, j)), None,
                                 Strip(After(m, j)))
           /\ NoMarker(m) => parsed = Reject
           /\ parsed.tag = "rec" =>
                /\ parsed.ts = line.ts
                /\ parsed.raw_message = StripLine(line)
                /\ parsed.event_type # <<>>

\* a record with a badge id, from a message with two status markers
C8_Witness ==
    /\ Parsed
    /\ parsed.tag = "rec"
    /\ parsed.badge_id = <<"b">>
    /\ parsed.event_type # <<"a">>
    /\ Cardinality(StatusAt(MessageOf(line))) = 2

\* the text before the markers of the untrimmed line, and after its last
\* status marker
EventTextOf(msg) ==
    LET j == SetMax(StatusAt(msg))
        b == {i \in BadgeAt(msg) : i + Len(_BADGE_PART) <= j}
    IN Strip(Before(msg, IF b # {} THEN SetMin(b) ELSE j))

BlankStatus(msg) ==
    /\ StatusAt(msg) # {}
    /\ Strip(After(msg, SetMax(StatusAt(msg)))) = <<>>

\* C9 (as claimed): a line of the line shape with a non-empty event type
\* and a status marker followed by nothing or by whitespace only is parsed
\* to a record whose status is "Unknown".
C9_UnknownStatus ==
    (Parsed /\ line.head = "ok" /\ BlankStatus(line.msg)
        /\ EventTextOf(line.msg) # <<>>) =>
            /\ parsed.tag = "rec"
            /\ parsed.status = Unknown

----------------------------------------------------------------------------
(* Properties of the latency pairing *)

Badges == {BadgeA, BadgeB}

\* the granted scans of badge b among the first n events, and its opens
GrantedScans(events, n, b) ==
    {k \in 1..n : /\ events[k].event_type = BadgeScan
                  /\ events[k].status \in {Granted, GrantedLower}
                  /\ events[k].badge_id = b}

OpensOf(events, n, b) ==
    {k \in 1..n : events[k].event_type = DoorOpen /\ events[k].badge_id = b}

\* the opens of b among the first n events that find a scan of b not yet
\* matched: more granted scans before the open than matched opens before it
RECURSIVE MatchedOpens(_, _, _)
MatchedOpens(events, n, b) ==
    IF n = 0 THEN {}
    ELSE LET M == MatchedOpens(events, n - 1, b)
         IN IF /\ n \in OpensOf(events, n, b)
               /\ Cardinality(GrantedScans(events, n - 1, b)) > Cardinality(M)
            THEN M \cup {n} ELSE M

\* the k-th element of a set of numbers
Nth(S, k) == CHOOSE x \in S : Cardinality({y \in S : y < x}) = k - 1

\* the scan the matched open at position o pairs with: the k-th granted
\* scan of b for the k-th matched open of b
ScanOf(events, n, b, o) ==
    Nth(GrantedScans(events, n, b),
        Cardinality({m \in MatchedOpens(events, n, b) : m <= o}))

\* the samples of the matched opens among the first n events, in the order
\* of the opens: the time of the open, and the seconds since its scan
LatencySamples(events, n) ==
    LET opens == Ascending(UNION {MatchedOpens(events, n, b) : b \in Badges})
    IN [k \in 1..Len(opens) |->
          LET o == opens[k]
              sc == ScanOf(events, n, events[o].badge_id, o)
          IN <<events[o].ts, SecondsOf(events[o].ts) - SecondsOf(events[sc].ts)>>]

\* the granted scans of b no open has matched, oldest first
UnmatchedScans(events, n, b) ==
    LET scans == Ascending(GrantedScans(events, n, b))
        m == Cardinality(MatchedOpens(events, n, b))
    IN [k \in 1..(Len(scans) - m) |-> events[scans[m + k]].ts]

Min2(x, y) == IF x <= y THEN x ELSE y

\* C21: after any number of events of a sequence in ascending order of
\* timestamp, every badge's queue holds the granted scans of that badge no
\* open has matched yet, oldest first, and no other badge's; the samples
\* are those of the opens that found a scan of their own badge queued, the
\* k-th such open of a badge paired with the k-th granted scan of that
\* badge (open time, open minus scan, never negative), in the order of the
\* opens; a badge never has more matched opens than granted scans or
\* opens; and the graph returns the samples' times and seconds.
C21_LatencyFifo ==
    call.fn = "_graph_badge_scan_latency" =>
        LET events == call.events
            n == call.i
        IN /\ call.pairs = LatencySamples(events, n)
           /\ DOMAIN call.scans_by_badge \subseteq Badges
           /\ \A b \in Badges :
                 /\ (IF b \in DOMAIN call.scans_by_badge
                     THEN call.scans_by_badge[b] ELSE <<>>)
                       = UnmatchedScans(events, n, b)
                 /\ Cardinality(MatchedOpens(events, n, b))
                       <= Min2(Cardinality(GrantedScans(events, n, b)),
                               Cardinality(OpensOf(events, n, b)))
                 /\ \A o \in MatchedOpens(events, n, b) :
                       /\ ScanOf(events, n, b, o) < o
                       /\ events[ScanOf(events, n, b, o)].badge_id = b
           /\ \A k \in 1..Len(call.pairs) : call.pairs[k][2] >= 0
           /\ call.returned =>
                 /\ call.graph.labels = [k \in 1..Len(call.pairs) |-> call.pairs[k][1]]
                 /\ call.graph.values = [k \in 1..Len(call.pairs) |-> call.pairs[k][2]]

\* scan of a at 09:00:00, scan of a at 09:00:02, then an open of a: one
\* sample of 2 seconds, the later scan still queued; and the example of a
\* scan, its open 2 seconds later and a second open that adds no sample
C21_Witness ==
    /\ call.fn = "_graph_badge_scan_latency"
    /\ call.returned
    /\ \/ /\ Len(call.events) = 3
          /\ GrantedScans(call.events, 3, BadgeA) = {1, 2}
          /\ call.events[1].ts # call.events[2].ts
          /\ OpensOf(call.events, 3, BadgeA) = {3}
          /\ call.graph.values = <<2>>
          /\ call.scans_by_badge[BadgeA] = <<call.events[2].ts>>
       \/ /\ Len(call.events) = 3
          /\ GrantedScans(call.events, 3, BadgeA) = {1}
          /\ OpensOf(call.events, 3, BadgeA) = {2, 3}
          /\ call.graph.values = <<2>>

----------------------------------------------------------------------------
(* Properties of the ranking *)

\* the granted scans of the events whose badge id is b
ScansOfBadge(events, b) ==
    Cardinality({k \in 1..Len(events) :
                    /\ events[k].event_type = BadgeScan
                    /\ events[k].status \in {Granted, GrantedLower}
                    /\ events[k].badge_id = b})

\* the granted scans counted under label l: those of badge id l and, for
\* the label "unknown", those without a badge id
ScansUnderLabel(events, l) ==
    ScansOfBadge(events, l)
        + (IF l = UnknownLabel THEN ScansOfBadge(events, NoBadge) ELSE 0)

\* the labels that have a granted scan
LabelsOf(events) ==
    {BadgeOrUnknown(events[k].badge_id) :
        k \in {j \in 1..Len(events) :
                  /\ events[j].event_type = BadgeScan
                  /\ events[j].status \in {Granted, GrantedLower}}}

\* label l ranks before label m: more scans, or as many and a lesser text
RanksBefore(events, l, m) ==
    \/ ScansUnderLabel(events, l) > ScansUnderLabel(events, m)
    \/ /\ ScansUnderLabel(events, l) = ScansUnderLabel(events, m)
       /\ LexLess(l, m)

\* the shape of a ranking: at most 10 labels with a value each, no label
\* twice, in ranking order, no label left out that ranks before a listed one
IsRanking(events, g) ==
    /\ Len(g.labels) = Len(g.values)
    /\ Len(g.labels) <= 10
    /\ Len(g.labels) = Min2(10, Cardinality(LabelsOf(events)))
    /\ \A k \in 1..Len(g.labels) : g.labels[k] \in LabelsOf(events)
    /\ \A j, k \in 1..Len(g.labels) :
          j < k => RanksBefore(events, g.labels[j], g.labels[k])
    /\ \A l \in LabelsOf(events), k \in 1..Len(g.labels) :
          RanksBefore(events, l, g.labels[k]) =>
              \E j \in 1..Len(g.labels) : g.labels[j] = l

\* C22 as stated: the result lists at most 10 badge ids, by count descending
\* and, among equal counts, by badge id ascending, nothing left out that
\* ranks before a listed one, and every listed value is the number of
\* granted 'Badge Scan' events of that badge id.
C22_TopRankingByBadgeId ==
    (call.fn = "_graph_top_badge_users" /\ call.returned) =>
        /\ IsRanking(call.events, call.graph)
        /\ \A k \in 1..Len(call.graph.labels) :
              call.graph.values[k] = ScansOfBadge(call.events, call.graph.labels[k])

\* C22, amended: the result is a ranking (at most 10 labels, by count
\* descending and, among equal counts, by label ascending as text, nothing
\* left out that ranks before a listed label) in which every listed value
\* is the number of granted 'Badge Scan' events of that badge id, the
\* events without a badge id being counted under the label "unknown"; it
\* depends only on how many such events each badge has, so it is the same
\* for every ordering of the events.
C22_TopRanking ==
    (call.fn = "_graph_top_badge_users" /\ call.returned) =>
        /\ IsRanking(call.events, call.graph)
        /\ \A k \in 1..Len(call.graph.labels) :
              call.graph.values[k] = ScansUnderLabel(call.events, call.graph.labels[k])

\* eleven badges scanned once each, in falling order, and badge 9 twice more:
\* ten are listed, badge 9 first, then "1", "10", "11", "2", ... "7"
C22_Witness ==
    /\ call.fn = "_graph_top_badge_users"
    /\ call.returned
    /\ Cardinality(LabelsOf(call.events)) = 11
    /\ call.events[1].badge_id = BadgeText(11)
    /\ call.graph.values = <<3, 1, 1, 1, 1, 1, 1, 1, 1, 1>>
    /\ call.graph.labels[1] = BadgeText(9)
    /\ call.graph.labels[3] = BadgeText(10)
    /\ call.graph.labels[10] = BadgeText(7)

----------------------------------------------------------------------------
(* Properties of the timeline *)

\* the page size a request asks for, where it writes a number
ClampedSize(asked) ==
    IF asked.n < 1 THEN 1 ELSE IF asked.n > 500 THEN 500 ELSE asked.n

\* the least number of pages, at least 1, that hold total items
PagesFor(total, size) ==
    CHOOSE q \in 1..(total + 1) :
        /\ q * size >= total
        /\ q = 1 \/ (q - 1) * size < total

\* the items at positions (page-1)*size up to page*size
ItemsOfPage(events, page, size) ==
    [k \in 1..(Min2(page * size, Len(events)) - Min2((page - 1) * size, Len(events))) |->
        events[(page - 1) * size + k]]

\* C23: every answer of _timeline reports a page size in [1, 500] (the
\* requested one clamped), total_pages = max(1, ceil(total / page_size)), a
\* page in [1, total_pages] and the items of that page; a requested page
\* below 1 gives page 1, a requested page beyond the last page gives the
\* last page, and the page is not empty when there are events.
C23_TimelineClamping ==
    (call.fn = "_timeline" /\ call.returned) =>
        LET t == call.result
            total == Len(call.events)
        IN /\ t.page_size >= 1 /\ t.page_size <= 500
           /\ call.asked.page_size.kind = "int" =>
                 t.page_size = ClampedSize(call.asked.page_size)
           /\ t.total = total
           /\ t.total_pages = PagesFor(total, t.page_size)
           /\ t.page >= 1 /\ t.page <= t.total_pages
           /\ t.items = ItemsOfPage(call.events, t.page, t.page_size)
           /\ (call.asked.page.kind = "int" /\ call.asked.page.n < 1) => t.page = 1
           /\ (call.asked.page.kind = "int" /\ call.asked.page.n > t.total_pages) =>
                 t.page = t.total_pages
           /\ total > 0 => t.items # <<>>

\* the same for the sequences that fill at most 500 pages
TimelineClampingUpTo500Pages ==
    (call.fn = "_timeline" /\ call.returned /\ call.result.total_pages <= 500) =>
        C23_TimelineClamping

\* C30: a client that asks for the pages 1, 2, ... total_pages in turn, with
\* a page size in [1, 500], is given page p when it asks for page p, the
\* pages it has been given are the consecutive slices of the sequence, and
\* after the last page their concatenation is the whole sequence.
C30_TimelinePagesCover ==
    (call.fn = "_timeline" /\ call.walking) =>
        LET t == call.result
            p == call.next - 1
        IN /\ t.page = p
           /\ t.items = ItemsOfPage(call.events, p, call.size)
           /\ call.seen = SubSeq(call.events, 1, Min2(p * call.size, Len(call.events)))
           /\ p = t.total_pages => call.seen = call.events

\* the same for the sequences that fill at most 500 pages
TimelinePagesCoverUpTo500Pages ==
    (call.fn = "_timeline" /\ call.walking /\ call.result.total_pages <= 500) =>
        C30_TimelinePagesCover

----------------------------------------------------------------------------
(* Properties of the doors left open *)

\* the closes of the pairs whose open is on a day and that last longer than
\* a number of seconds
LongPairsOfDay(events, day, seconds) ==
    {c \in PairedCloses(events, Len(events)) :
        /\ DateOf(events[OpenOf(events, c)].ts) = day
        /\ SecondsOf(events[c].ts) - SecondsOf(events[OpenOf(events, c)].ts) > seconds}

DaysOf(events) == {DateOf(events[k].ts) : k \in 1..Len(events)}

----------------------------------------------------------------------------
(* Properties of the export request *)

\* the formats that are csv or json whatever their case, a missing format
\* standing for json
CsvFormats == {FormatCsv, FormatCsvUpper}
JsonFormats == {<<>>, FormatJson, FormatJsonMixed}

\* the five fields of the stored rows of a month, as events
EventsStored(sh, month_key) ==
    LET rows == RowsOf(sh, get_month_db_path(month_key))
    IN [k \in 1..Len(rows) |->
          [ts |-> rows[k].ts, event_type |-> rows[k].event_type,
           badge_id |-> rows[k].badge_id, status |-> rows[k].status,
           raw_message |-> rows[k].raw_message]]

\* the line of the csv file that writes an event
CsvLineOf(e) ==
    <<e.ts, e.event_type, IF e.badge_id = None THEN <<>> ELSE e.badge_id,
      e.status, e.raw_message>>

\* body holds the events in ascending order of ts
IsExportOf(body, events) ==
    /\ SeqBag(body) = SeqBag(events)
    /\ \A k \in 1..(Len(body) - 1) : TextLeq(body[k].ts, body[k + 1].ts)

----------------------------------------------------------------------------
(* month_keys_in_range on its own: dates around the turn of a year, in the
   first years and in the last years a date can hold *)

KeyDatesFirst == {<<1, 1, 1>>, <<1, 12, 31>>, <<2, 1, 1>>}
KeyDatesNear == {<<2025, 1, 31>>, <<2025, 11, 30>>, <<2025, 12, 1>>,
                 <<2025, 12, 20>>, <<2025, 12, 31>>, <<2026, 1, 1>>,
                 <<2026, 1, 5>>, <<2026, 2, 28>>, <<2026, 12, 31>>,
                 <<2027, 1, 1>>, <<2028, 2, 29>>}
KeyDatesLast == {<<9998, 12, 31>>, <<9999, 1, 1>>, <<9999, 11, 30>>,
                 <<9999, 12, 1>>, <<9999, 12, 31>>}
KeyDates == KeyDatesFirst \cup KeyDatesNear \cup KeyDatesLast

\* the pairs of dates asked for: any two dates of one group, and any two
\* dates with the end before the start
KeyPairs ==
    {p \in KeyDates \X KeyDates :
        \/ DateLess(p[2], p[1])
        \/ \E group \in {KeyDatesFirst, KeyDatesNear, KeyDatesLast} :
              p[1] \in group /\ p[2] \in group}

InitKeys ==
    /\ shards = <<>>
    /\ dirs = {}
    /\ now = <<2025, 12>>
    /\ runs = 0
    /\ run = Idle
    /\ last = [op |-> "init"]
    /\ ret = NoRet
    /\ handles = {}
    /\ line = NoLine
    /\ parsed = NotParsed
    /\ ens = NoEns
    /\ dur = NoDur
    /\ \E p \in KeyPairs :
          call = [fn |-> "month_keys_in_range", start_date |-> p[1],
                  end_date |-> p[2], returned |-> FALSE,
                  result |-> [tag |-> "ok", months |-> <<>>]]

\* the call of month_keys_in_range
KeysCall ==
    /\ call.fn = "month_keys_in_range"
    /\ ~call.returned
    /\ call' = [call EXCEPT !.returned = TRUE,
                            !.result = month_keys_in_range(call.start_date,
                                                           call.end_date)]
    /\ UNCHANGED <<shards, dirs, now, runs, run, last, ret, handles, line,
                   parsed, ens, dur>>

NextKeys == KeysCall

SpecKeys == InitKeys /\ [][NextKeys]_vars

\* the month after a month of the calendar
SuccessorMonth(k) == IF k[2] = 12 THEN <<k[1] + 1, 1>> ELSE <<k[1], k[2] + 1>>

\* months is every month from the month of start_date to the month of
\* end_date, ascending, consecutive and without duplicates
IsMonthSpan(months, start_date, end_date) ==
    /\ Len(months) = 12 * (end_date[1] - start_date[1])
                        + (end_date[2] - start_date[2]) + 1
    /\ months[1] = <<start_date[1], start_date[2]>>
    /\ months[Len(months)] = <<end_date[1], end_date[2]>>
    /\ \A k \in 1..(Len(months) - 1) : months[k + 1] = SuccessorMonth(months[k])
    /\ \A j, k \in 1..Len(months) : j # k => months[j] # months[k]

\* C26: for all dates start <= end, month_keys_in_range(start, end) returns
\* the list of every calendar month from start's month to end's month
\* inclusive, ascending, consecutive (December of a year followed by January
\* of the next), without duplicates, of length 12 * (end.year - start.year)
\* + (end.month - start.month) + 1; for end < start it returns the empty
\* list; it returns for every input.
C26_MonthKeyResolution ==
    (call.fn = "month_keys_in_range" /\ call.returned) =>
        /\ call.result.tag = "ok"
        /\ DateLess(call.end_date, call.start_date) => call.result.months = <<>>
        /\ ~DateLess(call.end_date, call.start_date) =>
              IsMonthSpan(call.result.months, call.start_date, call.end_date)

\* the same, for every walk that does not have to step past December 9999
MonthKeyResolutionBeforeTheLastMonth ==
    (call.fn = "month_keys_in_range" /\ call.returned
        /\ (DateLess(call.end_date, call.start_date)
               \/ <<call.end_date[1], call.end_date[2]>> # <<MAXYEAR, 12>>))
        => /\ call.result.tag = "ok"
           /\ DateLess(call.end_date, call.start_date) =>
                 call.result.months = <<>>
           /\ ~DateLess(call.end_date, call.start_date) =>
                 IsMonthSpan(call.result.months, call.start_date, call.end_date)


----------------------------------------------------------------------------
(* A reader beside a first-touch ensure_month_db: query_month_events or
   query_events_range over one month, step by step, while a caller of
   ensure_month_db runs.  The reader's position is kept in call. *)

MonthQuery == "query_month_events"
RangeQuery == "query_events_range"

\* the caller of ensure_month_db that runs beside the reader
FirstTouch == 1

\* the events of a db file, as the SELECT ... ORDER BY ts ASC returns them
SelectAll(f) == OrderByTs(AllEvents(f.rows))

\* the call, up to the existence check: db_path = get_month_db_path(...)
ReaderCall(fn, month_key) ==
    /\ IF call.fn = "none" THEN TRUE ELSE call.pc = "returned"
    /\ call' = [fn |-> fn, month_key |-> month_key,
                db_path |-> get_month_db_path(month_key), pc |-> "exists"]
    /\ UNCHANGED ens

\* os.path.exists(db_path): query_month_events returns [] for an absent db;
\* db_paths_in_range leaves an absent db out (the query returns []) unless
\* its month is the current one, which it creates
ReaderExists ==
    /\ call.fn # "none"
    /\ call.pc = "exists"
    /\ call' = IF call.db_path \in DOMAIN ens.files
               THEN [call EXCEPT !.pc = "select"]
               ELSE IF call.fn = RangeQuery /\ call.month_key = now
               THEN [call EXCEPT !.pc = "makedirs"]
               ELSE [fn |-> call.fn, month_key |-> call.month_key,
                     db_path |-> call.db_path, pc |-> "returned",
                     ret |-> [tag |-> "ok", value |-> <<>>], saw |-> "absent"]
    /\ UNCHANGED ens

\* the steps of the reader's own ensure_month_db(month_key), in
\* db_paths_in_range
ReaderEnsure ==
    /\ call.fn = RangeQuery
    /\ LET db_path == call.db_path
       IN \/ /\ call.pc = "makedirs"
             /\ ens' = [ens EXCEPT !.dirs = @ \cup {DirName(db_path)}]
             /\ call' = [call EXCEPT !.pc = "connect"]
          \/ /\ call.pc = "connect"
             /\ ens' = [ens EXCEPT !.files = IF db_path \in DOMAIN @ THEN @
                                             ELSE @ @@ (db_path :> EmptyFile)]
             /\ call' = [call EXCEPT !.pc = "table"]
          \/ /\ call.pc = "table"
             /\ ens' = [ens EXCEPT !.files[db_path] =
                                       CreateTableIfNotExists(@).file]
             /\ call' = [call EXCEPT !.pc = "index1"]
          \/ \E i \in IndexNumbers :
                /\ call.pc = <<"index1", "index2", "index3">>[i]
                /\ LET done == CreateIndexIfNotExists(ens.files[db_path], i)
                   IN /\ ens' = [ens EXCEPT !.files[db_path] = done.file]
                      /\ call' = IF done.tag = "raise"
                                 THEN [fn |-> call.fn, month_key |-> call.month_key,
                                       db_path |-> db_path, pc |-> "returned",
                                       ret |-> [tag |-> "raise", value |-> <<>>],
                                       saw |-> "created"]
                                 ELSE [call EXCEPT !.pc =
                                          <<"index2", "index3", "select">>[i]]

\* the connection and the SELECT over the db that was seen to exist: its
\* events, or sqlite3.OperationalError (no such table: events)
ReaderSelect ==
    /\ call.fn # "none"
    /\ call.pc = "select"
    /\ LET f == ens.files[call.db_path]
       IN call' = [fn |-> call.fn, month_key |-> call.month_key,
                   db_path |-> call.db_path, pc |-> "returned",
                   ret |-> IF f.table THEN [tag |-> "ok", value |-> SelectAll(f)]
                           ELSE [tag |-> "raise", value |-> <<>>],
                   saw |-> IF f.table THEN "table" ELSE "no table"]
    /\ UNCHANGED ens

NextReading ==
    /\ \/ /\ \/ \E month_key \in EnsureKeys : EnsureCall(FirstTouch, month_key)
             \/ EnsureMakedirs(FirstTouch)
             \/ EnsureConnect(FirstTouch)
             \/ EnsureCreateTable(FirstTouch)
             \/ EnsureCreateIndex(FirstTouch)
             \/ EnsureReturn(FirstTouch)
          /\ UNCHANGED call
       \/ \E fn \in {MonthQuery, RangeQuery}, month_key \in EnsureKeys :
             ReaderCall(fn, month_key)
       \/ ReaderExists
       \/ ReaderEnsure
       \/ ReaderSelect
    /\ UNCHANGED <<shards, dirs, now, runs, run, last, ret, handles, line,
                   parsed, dur>>

SpecReading == InitEnsure /\ [][NextReading]_vars

\* C27: a reader never meets a half-created shard: whenever a query is
\* about to read a db it has seen to exist, the db has its events table,
\* whatever ensure_month_db is doing beside it; so no query fails, and a
\* query returns the events of the db or, for an absent db, none.
C27_NoHalfCreatedShard ==
    /\ (call.fn # "none" /\ call.pc = "select") =>
          ens.files[call.db_path].table
    /\ (call.fn # "none" /\ call.pc = "returned") => call.ret.tag = "ok"

\* the same, for a reader that has no ensure_month_db in its first steps
\* beside it: the caller that creates the db is past CREATE TABLE or idle
NoHalfCreatedShardOutsideTheCreation ==
    (/\ call.fn # "none"
     /\ call.pc = "select"
     /\ ens.procs[FirstTouch].pc \notin {"table"})
        => ens.files[call.db_path].table


----------------------------------------------------------------------------
(* Properties of an ingestion run over several shards *)

\* after the step, the db at db_path holds the rows it held when the run
\* began followed by all the rows the run inserted into it; or only the
\* former
HoldsAllOfRun(db_path) ==
    LET was == RowsOf(run.before, db_path)
        mine == PendingOf(run, db_path)
        got == RowsOf(shards', db_path)
    IN /\ Len(got) = Len(was) + Len(mine)
       /\ IsPrefix(was, got)
       /\ \A k \in 1..Len(mine) : _event_row(got[Len(was) + k]) = mine[k]

HoldsNoneOfRun(db_path) ==
    RowsOf(shards', db_path) = RowsOf(run.before, db_path)

\* C28 (as claimed): when an ingestion run ends, in whatever way and at
\* whatever step, either every shard it touched holds all the rows of the
\* run for it, or no shard holds any row of the run.
C28_AllOrNothingAcrossShards ==
    [][RunEnds =>
          \/ \A db_path \in DOMAIN run.pending : HoldsAllOfRun(db_path)
          \/ \A db_path \in DOMAIN run.pending : HoldsNoneOfRun(db_path)]_vars

\* C28 (amended): when an ingestion run ends, a shard it touched holds all
\* the rows of the run for it if the run had committed that shard and none
\* of them if it had not; a run that returns has committed every shard it
\* touched, a run that ends while lines are still being read has committed
\* none, and only a run cut short between two commits leaves some shards
\* with their rows and the others without.
C28_AllOrNothingPerCommit ==
    [][RunEnds =>
          /\ \A db_path \in DOMAIN run.pending :
                IF db_path \in DOMAIN run.commits
                THEN HoldsAllOfRun(db_path) ELSE HoldsNoneOfRun(db_path)
          /\ RunReturns => DOMAIN run.pending \subseteq DOMAIN run.commits
          /\ run.pc = "read" => DOMAIN run.commits = {}
          /\ (/\ \E db_path \in DOMAIN run.pending : HoldsAllOfRun(db_path)
              /\ \E db_path \in DOMAIN run.pending : HoldsNoneOfRun(db_path))
                => /\ run.pc = "commit"
                   /\ ret'.tag = "raise"
                   /\ run.order # <<>>
                   /\ DOMAIN run.commits # {}]_vars

\* after the only run, cut short between its two commits, a range query
\* over both months returns the event of December and not the one of
\* January, whose shard exists without rows
C28_Witness ==
    /\ runs = 1
    /\ RangeEnded
    /\ last.start_ts = TNov
    /\ last.end_ts = TJan1
    /\ last.event_types = {}
    /\ Len(ret.value) = 1
    /\ ret.value[1].ts = TDec
    /\ get_month_db_path(<<2026, 1>>) \in DOMAIN shards
    /\ shards[get_month_db_path(<<2026, 1>>)].rows = <<>>


----------------------------------------------------------------------------
(* Queries over a store that holds events of equal timestamp: the store left
   by the ingestion of a file whose lines share the last second of 2025 or
   the first second of 2026 *)

LineDecA == OkLine(TDec, Msg(TypeA, <<"b">>, <<"a">>))
LineJanB == OkLine(TJan, Msg(TypeB, <<>>, <<"a">>))
TieLines == {LineDec, LineDecA, LineJan, LineJanB}

\* the files of distinct lines, up to MaxLines + 1 of them
TieFiles ==
    {file \in UNION {[1..n -> TieLines] : n \in 0..(MaxLines + 1)} :
        \A i, j \in 1..Len(file) : i # j => file[i] # file[j]}

TieRanges == {<<TNov, TJan1>>, <<TDec, TDec>>, <<TJan, TJan1>>}
TieFilters == {{}, {TypeA}, {TypeA, TypeB}}

InitTies ==
    /\ \E file \in TieFiles :
          \E st \in {StoreAfterIngest([shards |-> <<>>, dirs |-> {}], file)} :
              /\ shards = st.shards
              /\ dirs = st.dirs
    /\ now = <<2025, 11>>
    /\ runs = 0
    /\ run = Idle
    /\ last = [op |-> "init"]
    /\ ret = NoRet
    /\ handles = {}
    /\ line = NoLine
    /\ parsed = NotParsed
    /\ ens = NoEns
    /\ dur = NoDur
    /\ call = NoCall

NextTies ==
    \/ \E r \in TieRanges, f \in TieFilters : QueryRange(r[1], r[2], f)
    \/ \E k \in MonthKeys : QueryMonth(k)

SpecTies == InitTies /\ [][NextTies]_vars

\* the events of a sequence that carry the timestamp ts
EventsAt(events, ts) ==
    LET AtTs(e) == e.ts = ts IN SelectSeq(events, AtTs)

\* the stored events of timestamp ts that a query with the filter
\* event_types selects, in the order in which they were ingested: the order
\* of the rows of the shard of that month
IngestedAt(ts, event_types) ==
    LET Chosen(e) == e.ts = ts /\ (event_types # {} => e.event_type \in event_types)
    IN SelectSeq(AllEvents(RowsOf(shards, get_month_db_path(MonthPrefix(ts)))),
                 Chosen)

\* C29: the stored events of one timestamp come back from a range query and
\* from a month query in the order in which they were ingested.
C29_TieOrderIsIngestionOrder ==
    /\ (RangeEnded /\ ret.tag = "ok") =>
          \A i \in 1..Len(ret.value) :
              EventsAt(ret.value, ret.value[i].ts)
                  = IngestedAt(ret.value[i].ts, last.event_types)
    /\ last.op = "month" =>
          \A i \in 1..Len(ret.value) :
              EventsAt(ret.value, ret.value[i].ts)
                  = IngestedAt(ret.value[i].ts, {})

\* whatever the order of the events of one timestamp, they are the stored
\* events of that timestamp that the query selects
TiesHoldTheIngestedEvents ==
    /\ (RangeEnded /\ ret.tag = "ok") =>
          \A i \in 1..Len(ret.value) :
              SeqBag(EventsAt(ret.value, ret.value[i].ts))
                  = SeqBag(IngestedAt(ret.value[i].ts, last.event_types))
    /\ last.op = "month" =>
          \A i \in 1..Len(ret.value) :
              SeqBag(EventsAt(ret.value, ret.value[i].ts))
                  = SeqBag(IngestedAt(ret.value[i].ts, {}))

\* the same for the queries that name at most one event type: the month
\* query, the range query without filter or with a filter of one type
TieOrderUnderAtMostOneType ==
    /\ (RangeEnded /\ ret.tag = "ok" /\ Cardinality(last.event_types) <= 1) =>
          \A i \in 1..Len(ret.value) :
              EventsAt(ret.value, ret.value[i].ts)
                  = IngestedAt(ret.value[i].ts, last.event_types)
    /\ last.op = "month" =>
          \A i \in 1..Len(ret.value) :
              EventsAt(ret.value, ret.value[i].ts)
                  = IngestedAt(ret.value[i].ts, {})

----------------------------------------------------------------------------
(* The same file ingested again and again, from an empty store: call holds
   the file, runs counts the ingestions begun *)

\* the files: every sequence of up to MaxLines of the lines of FileLines
RepeatedFiles == UNION {[1..n -> FileLines] : n \in 0..MaxLines}

InitRepeat ==
    /\ shards = <<>>
    /\ dirs = {}
    /\ now = <<2025, 11>>
    /\ runs = 0
    /\ run = Idle
    /\ last = [op |-> "init"]
    /\ ret = NoRet
    /\ handles = {}
    /\ line = NoLine
    /\ parsed = NotParsed
    /\ ens = NoEns
    /\ dur = NoDur
    /\ \E file \in RepeatedFiles : call = [fn |-> "repeat", file |-> file]

\* ingest_action_log_file(path) of the file once more: up to open(path)
RepeatOpen ==
    /\ call.fn = "repeat"
    /\ run.pc = "idle"
    /\ runs < MaxRepeats
    /\ runs' = runs + 1
    /\ run' = [pc |-> "read", file |-> <<>>, conns |-> <<>>, pending |-> <<>>,
               order |-> <<>>, commits |-> <<>>, inserted |-> 0,
               fresh |-> Fresh, before |-> shards]
    /\ last' = [op |-> "ingesting"]
    /\ ret' = NoRet
    /\ UNCHANGED <<shards, dirs, now, handles, harness>>

\* the next line of the file is read
RepeatReadLine ==
    /\ call.fn = "repeat"
    /\ run.pc = "read"
    /\ Len(run.file) < Len(call.file)
    /\ ReadLine(call.file[Len(run.file) + 1])

\* the file is exhausted
RepeatEndOfFile ==
    /\ call.fn = "repeat"
    /\ run.pc = "read"
    /\ Len(run.file) = Len(call.file)
    /\ EndOfFile

NextRepeat ==
    \/ RepeatOpen
    \/ RepeatReadLine
    \/ RepeatEndOfFile
    \/ CommitNext
    \/ IngestReturn

SpecRepeat == InitRepeat /\ [][NextRepeat]_vars

\* the number of stored rows, over all shards, whose five fields are those
\* of the event e, and the number of their distinct ids within their shard
CopiesStored(e) == Cardinality({pl \in Places : _event_row(RowAt(pl)) = e})
IdsOfCopies(e) ==
    Cardinality({<<pl[1], RowAt(pl).id>> : pl \in {q \in Places : _event_row(RowAt(q)) = e}})

\* the number of times e occurs in a sequence
TimesIn(e, s) == Cardinality({i \in 1..Len(s) : s[i] = e})

\* after the k-th ingestion of the file: the count returned is the number
\* of accepted lines; every accepted record is stored k times as often as
\* the file holds it, under as many ids; the range query over the whole
\* file returns it as often; the store holds k times the accepted lines
NoDeduplicationAfter(k, file) ==
    LET accepted == Accepted(file)
        rows == RangeRows(TNov, TJan1, {})
    IN /\ ret = [tag |-> "ok", value |-> Len(accepted)]
       /\ \A e \in Range(accepted) :
             /\ CopiesStored(e) = k * TimesIn(e, accepted)
             /\ IdsOfCopies(e) = k * TimesIn(e, accepted)
             /\ TimesIn(e, rows) = k * TimesIn(e, accepted)
       /\ Len(rows) = k * Len(accepted)
       /\ RowCount(shards) = k * Len(accepted)

\* C31: ingesting the same existing file k times returns the same count
\* each time, the number of lines the parser accepts, and leaves every
\* accepted record stored k times, under k distinct ids with identical
\* fields, so a range query returns it k times; the store is left as it
\* was only by a file with no accepted line.
C31_NoDeduplication ==
    (call.fn = "repeat" /\ IngestEnded) => NoDeduplicationAfter(runs, call.file)

\* the same, for the files whose ingestion returns
NoDeduplicationOfReturnedRuns ==
    (call.fn = "repeat" /\ IngestEnded /\ ret.tag = "ok")
        => NoDeduplicationAfter(runs, call.file)

----------------------------------------------------------------------------
(* The door controller of start.py: the button thread (monitor_buttons),
   the RFID thread (check_rfid) and the threads of the auto-lock timers,
   statement by statement.  call holds the globals door_unlocked,
   unlock_timer, gpio_lock and the relay pin, the position of every thread,
   and manual: whether a manual unlock is in force (set when unlock_door
   has started its timer, cleared when lock_door is entered).  A timer is
   unborn, pending, cancelled, inside lock_door, or done.  The main thread
   waits in join() until it runs GPIO.cleanup(); from then on the relay pin
   is an input and every GPIO call of a thread raises RuntimeError. *)

LOW == "LOW"
HIGH == "HIGH"

\* the relay pin after GPIO.cleanup(): an input, no longer driven
INPUT == "INPUT"

\* the threads, as holders of gpio_lock
Free == [by |-> "free", t |-> 0]
ButtonThread == [by |-> "button", t |-> 0]
RfidThread == [by |-> "rfid", t |-> 0]
TimerThread(t) == [by |-> "timer", t |-> t]

Timers == 1..MaxTimers

\* the timers created so far
TimersMade(c) == Cardinality({t \in Timers : c.timers[t] # "unborn"})

\* unlock_timer.cancel(): a timer that has not fired yet never will
Cancel(timers, unlock_timer) ==
    IF unlock_timer # 0 /\ timers[unlock_timer] = "pending"
    THEN [timers EXCEPT ![unlock_timer] = "cancelled"]
    ELSE timers

\* one step of unlock_door() by the thread me at position pc: the set of
\* [pc, c] it can lead to; pc "return" and "raise" leave the function
unlock_door(c, me, pc) ==
    CASE pc = "u_acquire" ->
            \* with gpio_lock: if not door_unlocked
            IF c.gpio_lock # Free THEN {}
            ELSE {[pc |-> IF c.door_unlocked THEN "u_release" ELSE "u_flag",
                   c |-> [c EXCEPT !.gpio_lock = me]]}
      [] pc = "u_flag" ->
            {[pc |-> "u_relay", c |-> [c EXCEPT !.door_unlocked = TRUE]]}
      [] pc = "u_relay" ->
            IF c.main = "cleaned"
            THEN {[pc |-> "raise", c |-> [c EXCEPT !.gpio_lock = Free]]}
            ELSE {[pc |-> "u_log", c |-> [c EXCEPT !.relay = HIGH]]}
      [] pc = "u_log" ->
            {[pc |-> "u_timer", c |-> c],
             [pc |-> "raise", c |-> [c EXCEPT !.gpio_lock = Free]]}
      [] pc = "u_timer" ->
            \* unlock_timer = threading.Timer(...); unlock_timer.start()
            LET t == TimersMade(c) + 1
            IN {[pc |-> "u_release",
                 c |-> [c EXCEPT !.timers[t] = "pending",
                                 !.unlock_timer = t,
                                 !.manual = TRUE]]}
      [] pc = "u_release" ->
            {[pc |-> "return", c |-> [c EXCEPT !.gpio_lock = Free]]}
      [] OTHER -> {}

\* one step of lock_door() by the thread me at position pc
lock_door(c, me, pc) ==
    CASE pc = "k_acquire" ->
            IF c.gpio_lock # Free THEN {}
            ELSE {[pc |-> "k_timer",
                   c |-> [c EXCEPT !.gpio_lock = me, !.manual = FALSE]]}
      [] pc = "k_timer" ->
            \* if unlock_timer is not None: cancel(); if door_unlocked
            {[pc |-> IF c.door_unlocked THEN "k_flag" ELSE "k_release",
              c |-> [c EXCEPT !.timers = Cancel(@, c.unlock_timer)]]}
      [] pc = "k_flag" ->
            {[pc |-> "k_relay", c |-> [c EXCEPT !.door_unlocked = FALSE]]}
      [] pc = "k_relay" ->
            IF c.main = "cleaned"
            THEN {[pc |-> "raise", c |-> [c EXCEPT !.gpio_lock = Free]]}
            ELSE {[pc |-> "k_log", c |-> [c EXCEPT !.relay = LOW]]}
      [] pc = "k_log" ->
            {[pc |-> "k_release", c |-> c],
             [pc |-> "raise", c |-> [c EXCEPT !.gpio_lock = Free]]}
      [] pc = "k_release" ->
            {[pc |-> "return", c |-> [c EXCEPT !.gpio_lock = Free]]}
      [] OTHER -> {}

\* the state after the module has been run up to the start of the threads
InitDoor ==
    /\ shards = <<>>
    /\ dirs = {}
    /\ now = <<2025, 12>>
    /\ runs = 0
    /\ run = Idle
    /\ last = [op |-> "init"]
    /\ ret = NoRet
    /\ handles = {}
    /\ line = NoLine
    /\ parsed = NotParsed
    /\ ens = NoEns
    /\ dur = NoDur
    /\ call = [fn |-> "door", door_unlocked |-> FALSE, relay |-> LOW,
               unlock_timer |-> 0, gpio_lock |-> Free,
               timers |-> [t \in Timers |-> "unborn"], manual |-> FALSE,
               button |-> "poll", rfid |-> [pc |-> "poll", path |-> "sheet"],
               main |-> "join"]

\* monitor_buttons: the unlock button, pressed and still pressed 50 ms
\* later or not, then `if not door_unlocked: unlock_door()`
ButtonPoll ==
    /\ call.button = "poll"
    /\ IF call.main = "cleaned"
       THEN call' = [call EXCEPT !.button = "dead"]
       ELSE \E pressed \in BOOLEAN :
               /\ pressed => TimersMade(call) < MaxTimers
               /\ call' = [call EXCEPT !.button =
                              IF pressed /\ ~call.door_unlocked
                              THEN "u_acquire" ELSE "lock_check"]

\* monitor_buttons: the lock button, pressed past the debounce time or not,
\* then `if door_unlocked: lock_door()`
ButtonLockCheck ==
    /\ call.button = "lock_check"
    /\ \E pressed \in BOOLEAN :
          call' = [call EXCEPT !.button =
                      IF pressed /\ call.door_unlocked
                      THEN "k_acquire" ELSE "poll"]

\* a step of the button thread inside unlock_door()
ButtonUnlock ==
    \E o \in unlock_door(call, ButtonThread, call.button) :
        call' = [o.c EXCEPT !.button =
                    IF o.pc = "return" THEN "lock_check"
                    ELSE IF o.pc = "raise" THEN "dead" ELSE o.pc]

\* a step of the button thread inside lock_door()
ButtonLock ==
    \E o \in lock_door(call, ButtonThread, call.button) :
        call' = [o.c EXCEPT !.button =
                    IF o.pc = "return" THEN "poll"
                    ELSE IF o.pc = "raise" THEN "dead" ELSE o.pc]

\* the timer t expires: its thread calls lock_door
TimerFires(t) ==
    /\ call.timers[t] = "pending"
    /\ call' = [call EXCEPT !.timers[t] = "k_acquire"]

\* a step of the thread of timer t inside lock_door()
TimerLock(t) ==
    \E o \in lock_door(call, TimerThread(t), call.timers[t]) :
        call' = [o.c EXCEPT !.timers[t] =
                    IF o.pc \in {"return", "raise"} THEN "done" ELSE o.pc]

\* check_rfid: a card is read; the sheet is looked up (lines 146-147): the
\* uid is listed, or not, or the lookup raises GSpreadException
RfidScan ==
    /\ call.rfid.pc = "poll"
    /\ IF call.main = "cleaned"
       THEN call' = [call EXCEPT !.rfid.pc = "dead"]
       ELSE \E pc \in {"r_check", "r_denied", "r_csv"} :
               call' = [call EXCEPT !.rfid = [pc |-> pc, path |-> "sheet"]]

\* `if not door_unlocked:` (line 152, line 171), read without gpio_lock
RfidCheck ==
    /\ call.rfid.pc = "r_check"
    /\ call' = [call EXCEPT !.rfid.pc =
                   IF ~call.door_unlocked THEN "r_acquire"
                   ELSE IF call.rfid.path = "sheet" THEN "r_log" ELSE "poll"]

\* with gpio_lock: HIGH, door_unlocked = True, sleep(5), LOW,
\* door_unlocked = False, one statement a step
RfidCycle ==
    \/ /\ call.rfid.pc = "r_acquire"
       /\ call.gpio_lock = Free
       /\ call' = [call EXCEPT !.gpio_lock = RfidThread, !.rfid.pc = "r_high"]
    \/ /\ call.rfid.pc = "r_high"
       /\ call' = IF call.main = "cleaned"
                  THEN [call EXCEPT !.gpio_lock = Free, !.rfid.pc = "dead"]
                  ELSE [call EXCEPT !.relay = HIGH, !.rfid.pc = "r_flag"]
    \/ /\ call.rfid.pc = "r_flag"
       /\ call' = [call EXCEPT !.door_unlocked = TRUE, !.rfid.pc = "r_low"]
    \/ /\ call.rfid.pc = "r_low"
       /\ call' = IF call.main = "cleaned"
                  THEN [call EXCEPT !.gpio_lock = Free, !.rfid.pc = "dead"]
                  ELSE [call EXCEPT !.relay = LOW, !.rfid.pc = "r_clear"]
    \/ /\ call.rfid.pc = "r_clear"
       /\ call' = [call EXCEPT !.door_unlocked = FALSE, !.rfid.pc = "r_release"]
    \/ /\ call.rfid.pc = "r_release"
       /\ call' = [call EXCEPT !.gpio_lock = Free,
                               !.rfid.pc = IF call.rfid.path = "sheet"
                                           THEN "r_log" ELSE "poll"]

\* the log_access calls of check_rfid: inside the try block (lines 159,
\* 162) a GSpreadException leads to the CSV fallback; in the except block
\* (lines 168, 180) an exception ends the thread; check_local_csv finds
\* the uid or not
RfidLog ==
    \/ /\ call.rfid.pc \in {"r_log", "r_denied"}
       /\ \E pc \in {"poll", "r_csv", "dead"} : call' = [call EXCEPT !.rfid.pc = pc]
    \/ /\ call.rfid.pc = "r_csv"
       /\ \E pc \in {"r_csv_log", "r_csv_denied"} :
             call' = [call EXCEPT !.rfid.pc = pc]
    \/ /\ call.rfid.pc = "r_csv_log"
       /\ \/ call' = [call EXCEPT !.rfid = [pc |-> "r_check", path |-> "csv"]]
          \/ call' = [call EXCEPT !.rfid.pc = "dead"]
    \/ /\ call.rfid.pc = "r_csv_denied"
       /\ \E pc \in {"poll", "dead"} : call' = [call EXCEPT !.rfid.pc = pc]

\* the main thread: join() ends, by KeyboardInterrupt or because both
\* threads have ended, and the finally clause runs GPIO.cleanup()
Cleanup ==
    /\ call.main = "join"
    /\ call' = [call EXCEPT !.main = "cleaned", !.relay = INPUT]

NextDoor ==
    /\ call.fn = "door"
    /\ \/ ButtonPoll
       \/ ButtonLockCheck
       \/ ButtonUnlock
       \/ ButtonLock
       \/ \E t \in Timers : TimerFires(t)
       \/ \E t \in Timers : TimerLock(t)
       \/ RfidScan
       \/ RfidCheck
       \/ RfidCycle
       \/ RfidLog
       \/ Cleanup
    /\ UNCHANGED <<shards, dirs, now, runs, run, last, ret, handles, line,
                   parsed, ens, dur>>

SpecDoor == InitDoor /\ [][NextDoor]_vars

\* the timers that are started and have neither fired nor been cancelled
PendingTimers == {t \in Timers : call.timers[t] = "pending"}

\* C32: while the controller runs and a manual unlock is in force
\* (unlock_door has set door_unlocked and started its timer, and lock_door
\* has not been entered since, by the lock button or by the timer) the
\* relay is HIGH and door_unlocked is true, whatever the RFID thread does;
\* and at most one auto-lock timer is pending.
C32_ScanNeverCutsManualUnlock ==
    (call.fn = "door" /\ call.main = "join") =>
        /\ call.manual => (call.relay = HIGH /\ call.door_unlocked)
        /\ Cardinality(PendingTimers) <= 1

\* a step that writes the relay pin (GPIO.output) or door_unlocked
WritesRelayOrFlag ==
    \/ call'.relay # call.relay /\ call'.relay \in {LOW, HIGH}
    \/ call'.door_unlocked # call.door_unlocked

\* gpio_lock is held before and after the step, by the same thread
UnderGpioLock == call.gpio_lock # Free /\ call'.gpio_lock = call.gpio_lock

\* C33 as stated: in every state of the door controller in which gpio_lock
\* is not held, the relay output is HIGH if and only if door_unlocked is
\* true; and every step that writes the relay pin or door_unlocked is taken
\* while gpio_lock is held.
C33_RelayAndFlagAgree ==
    /\ [](( call.fn = "door" /\ call.gpio_lock = Free)
            => (call.relay = HIGH <=> call.door_unlocked))
    /\ [][(call.fn = "door" /\ WritesRelayOrFlag) => UnderGpioLock]_vars

\* the same up to the shutdown: before the main thread's GPIO.cleanup(),
\* in every state in which gpio_lock is not held, the relay output is HIGH
\* if and only if door_unlocked is true; and every step that writes the
\* relay pin or door_unlocked is taken while gpio_lock is held.
RelayAndFlagAgreeBeforeCleanup ==
    /\ [](( call.fn = "door" /\ call.main = "join" /\ call.gpio_lock = Free)
            => (call.relay = HIGH <=> call.door_unlocked))
    /\ [][(call.fn = "door" /\ WritesRelayOrFlag) => UnderGpioLock]_vars

====
